---- MODULE Spec2Model ----
(***************************************************************************)
(* Invantia Desktop: the retrieval pipeline (query expansion, hybrid chunk *)
(* scoring, topic-grouped packing into super chunks, envelope formatting). *)
(*                                                                         *)
(* Text is a sequence of one-character strings.  Real numbers are fixed    *)
(* point: a similarity s stands for s/100, a score v for v/100 points.     *)
(***************************************************************************)
EXTENDS Integers, Sequences, FiniteSets, TLC

VARIABLES db, run

vars == <<db, run>>

(***************************************************************************)
(* Bounds of the explored inputs                                           *)
(***************************************************************************)
MaxTopics == 2

MaxChunksPerTopic == 3

(***************************************************************************)
(* Generic sequence helpers                                                *)
(***************************************************************************)
\* body applied to the value of v, which is evaluated once
With(v, body(_)) == CHOOSE r \in {body(x) : x \in {v}} : TRUE

\* the sequence as an enumerated tuple: TLC keeps a function constructor
\* unevaluated and evaluates it again at each application
AsSeq(s) == s \o <<>>

Range(s) == With(AsSeq(s), LAMBDA t : {t[i] : i \in 1..Len(t)})

SumSeq(s) ==
  With(AsSeq(s), LAMBDA t :
    LET F[i \in 0..Len(t)] == IF i = 0 THEN 0 ELSE F[i - 1] + t[i]
    IN F[Len(t)])

FlattenSeq(ss) ==
  With(AsSeq(ss), LAMBDA t :
    LET F[i \in 0..Len(t)] == IF i = 0 THEN <<>> ELSE F[i - 1] \o t[i]
    IN F[Len(t)])

\* Array.prototype.filter
FilterSeq(s, keep(_)) ==
  With(AsSeq(s), LAMBDA t :
    LET F[i \in 0..Len(t)] ==
          IF i = 0 THEN <<>>
          ELSE F[i - 1] \o (IF keep(t[i]) THEN <<t[i]>> ELSE <<>>)
    IN F[Len(t)])

\* Array.prototype.map
\* step folded over s from the left, starting from base
FoldSeq(s, base, step(_, _)) ==
  With(AsSeq(s), LAMBDA t :
    LET F[i \in 0..Len(t)] ==
          IF i = 0 THEN base
          ELSE With(F[i - 1], LAMBDA acc : step(acc, t[i]))
    IN F[Len(t)])

MapSeq(s, f(_)) == With(AsSeq(s), LAMBDA t : AsSeq([i \in 1..Len(t) |-> f(t[i])]))

SetMin(S) == CHOOSE x \in S : \A y \in S : x <= y

\* Array.prototype.sort (stable): before(a, b) is "compare(a, b) < 0".  Each
\* element is inserted before the first already placed element that must
\* come after it, so elements that compare equal keep their input order.
InsertSorted(x, placed, before(_, _)) ==
  With(placed, LAMBDA t :
    LET later == {j \in 1..Len(t) : before(x, t[j])}
        p == IF later = {} THEN Len(t) + 1 ELSE SetMin(later)
    IN SubSeq(t, 1, p - 1) \o <<x>> \o SubSeq(t, p, Len(t)))

StableSort(s, before(_, _)) ==
  With(AsSeq(s), LAMBDA t :
    LET F[i \in 0..Len(t)] ==
          IF i = 0 THEN <<>> ELSE InsertSorted(t[i], F[i - 1], before)
    IN F[Len(t)])

\* Number.prototype.toString / template interpolation of a non-negative integer
NumChars(n) == Len(ToString(n))

\* Number.prototype.toFixed(1) of the score v/100: the number of tenths
Tenths(v) == (v + 5) \div 10

toFixed1Chars(v) == NumChars(Tenths(v) \div 10) + Len(".") + 1

\* an optional argument: null, or a value
Null == <<>>

Some(v) == <<v>>

(***************************************************************************)
(* Text primitives: String.prototype.toLowerCase, includes, indexOf        *)
(***************************************************************************)
\* the lower case letter of each upper case letter
UpperCase ==
  [A |-> "a", B |-> "b", C |-> "c", D |-> "d", E |-> "e", F |-> "f", G |-> "g",
   H |-> "h", I |-> "i", J |-> "j", K |-> "k", L |-> "l", M |-> "m", N |-> "n",
   O |-> "o", P |-> "p", Q |-> "q", R |-> "r", S |-> "s", T |-> "t", U |-> "u",
   V |-> "v", W |-> "w", X |-> "x", Y |-> "y", Z |-> "z"]

LowerCase == {UpperCase[c] : c \in DOMAIN UpperCase}

Digits == {"0", "1", "2", "3", "4", "5", "6", "7", "8", "9"}

toLowerChar(c) == IF c \in DOMAIN UpperCase THEN UpperCase[c] ELSE c

toLowerCase(text) == AsSeq([i \in 1..Len(text) |-> toLowerChar(text[i])])

\* the text as one string, to compare it with string literals
RECURSIVE ToStr(_)
ToStr(text) == IF text = <<>> THEN "" ELSE Head(text) \o ToStr(Tail(text))

\* the 0-based offsets at which term occurs in content, ascending:
\* the loop "index = content.indexOf(termLower, index + 1)"
occurrences(content, term) ==
  With(<<content, term>>, LAMBDA a :
    LET n == Len(a[1])
        m == Len(a[2])
        F[i \in 0..n] ==
          IF i = 0 THEN <<>>
          ELSE IF i + m - 1 <= n /\ \A k \in 1..m : a[1][i + k - 1] = a[2][k]
               THEN Append(F[i - 1], i - 1)
               ELSE F[i - 1]
    IN F[n])

includes(content, term) ==
  With(<<content, term>>, LAMBDA a :
    \E i \in 1..(Len(a[1]) - Len(a[2]) + 1) :
      \A k \in 1..Len(a[2]) : a[1][i + k - 1] = a[2][k])

\* Array.prototype.includes
seqIncludes(s, x) == With(AsSeq(s), LAMBDA t : \E i \in 1..Len(t) : t[i] = x)

\* [...new Set(s)]: the distinct elements in order of first occurrence
unique(s) ==
  With(AsSeq(s), LAMBDA t :
    MapSeq(FilterSeq([i \in 1..Len(t) |-> [at |-> i, element |-> t[i]]],
                     LAMBDA e : \A j \in 1..(e.at - 1) : t[j] # e.element),
           LAMBDA e : e.element))

\* Array.prototype.join(' ')
joinTexts(texts) ==
  LET F[i \in 0..Len(texts)] ==
        IF i = 0 THEN <<>>
        ELSE IF i = 1 THEN texts[1]
        ELSE F[i - 1] \o <<" ">> \o texts[i]
  IN F[Len(texts)]

(***************************************************************************)
(* vectorizer.js: configuration and tokenization                           *)
(***************************************************************************)
windowSize == 7

minFrequency == 2

maxTerms == 10000

\* minSimilarity 0.3
minSimilarity == 30

maxExpansions == 5

stopwords ==
  {"the", "be", "to", "of", "and", "a", "in", "that", "have", "i",
   "it", "for", "not", "on", "with", "he", "as", "you", "do", "at",
   "this", "but", "his", "by", "from", "they", "we", "say", "her", "she",
   "or", "an", "will", "my", "one", "all", "would", "there", "their",
   "what", "so", "up", "out", "if", "about", "who", "get", "which", "go",
   "me", "when", "make", "can", "like", "time", "no", "just", "him", "know",
   "take", "people", "into", "year", "your", "good", "some", "could", "them",
   "see", "other", "than", "then", "now", "look", "only", "come", "its", "over",
   "think", "also", "back", "after", "use", "two", "how", "our", "work",
   "first", "well", "way", "even", "new", "want", "because", "any", "these",
   "give", "day", "most", "us", "is", "was", "are", "been", "has", "had",
   "were", "said", "did", "having", "may", "should", "does", "am"}

isLetter(c) == c \in LowerCase

\* \w of the regular expression
isWordChar(c) == c \in LowerCase \/ c \in Digits \/ c = "_" \/ c \in DOMAIN UpperCase

\* [a-z0-9\-]
isTokenChar(c) == isLetter(c) \/ c \in Digits \/ c = "-"

\* the end of the match of /\b[a-z][a-z0-9\-]*\b/ that starts at p, or 0:
\* the longest run of token characters from p, cut back to a word boundary
matchEnd(text, p) ==
  LET n == Len(text)
      boundaryBefore(i) == (i = 1 \/ ~isWordChar(text[i - 1])) /\ isWordChar(text[i])
      boundaryAfter(i) == isWordChar(text[i]) /\ (i = n \/ ~isWordChar(text[i + 1]))
      ends == {e \in p..n : /\ \A k \in (p + 1)..e : isTokenChar(text[k])
                            /\ boundaryAfter(e)}
  IN IF isLetter(text[p]) /\ boundaryBefore(p) /\ ends # {}
     THEN CHOOSE e \in ends : \A f \in ends : f <= e
     ELSE 0

\* tokenize(text): the kept tokens with their 0-based positions
tokenize(rawText) ==
  With(toLowerCase(rawText), LAMBDA text :
    LET n == Len(text)
        \* Scan[k]: the tokens matched in the last k characters
        Scan[k \in 0..n] ==
          IF k = 0 THEN <<>>
          ELSE With(matchEnd(text, n + 1 - k), LAMBDA e :
                 IF e = 0 THEN Scan[k - 1]
                 ELSE With(SubSeq(text, n + 1 - k, e), LAMBDA token :
                        IF ToStr(token) \in stopwords \/ Len(token) < 2
                        THEN Scan[n - e]
                        ELSE <<[term |-> token, position |-> n - k]>> \o Scan[n - e]))
    IN Scan[n])

\* extractPhrases(tokens): bigrams, then trigrams
extractPhrases(tokens) ==
  With(AsSeq(tokens), LAMBDA t :
       [i \in 1..(IF Len(t) > 1 THEN Len(t) - 1 ELSE 0) |->
          [term |-> t[i].term \o <<" ">> \o t[i + 1].term,
           position |-> t[i].position, type |-> "bigram"]]
    \o [i \in 1..(IF Len(t) > 2 THEN Len(t) - 2 ELSE 0) |->
          [term |-> t[i].term \o <<" ">> \o t[i + 1].term \o <<" ">> \o t[i + 2].term,
           position |-> t[i].position, type |-> "trigram"]])

\* the terms of the tokens, then of the phrases: [...tokens, ...phrases]
allTermsOf(text) ==
  With(tokenize(text), LAMBDA tokens :
    With(extractPhrases(tokens), LAMBDA phrases :
      [i \in 1..Len(tokens) |-> tokens[i].term]
      \o [i \in 1..Len(phrases) |-> phrases[i].term]))

\* buildCoOccurrenceMatrix lines 130-141: the terms frequent enough
validTermsOf(allTerms) ==
  LET termFreq(term) == Cardinality({i \in 1..Len(allTerms) : allTerms[i] = term})
  IN FilterSeq(allTerms, LAMBDA term : termFreq(term) >= minFrequency)

\* buildCoOccurrenceMatrix lines 146-167: the vector of center, its entries
\* in the order they are first set
vectorOf(validTerms, center) ==
  LET n == Len(validTerms)
      \* the window of occurrence i: windowStart..windowEnd without i
      window(i) == {j \in 1..n : j # i /\ j >= i - windowSize /\ j <= i + windowSize}
      contextAt(i) ==
        LET G[j \in 0..n] ==
              IF j = 0 THEN <<>>
              ELSE IF j \in window(i) THEN Append(G[j - 1], validTerms[j]) ELSE G[j - 1]
        IN G[n]
  IN With(FlattenSeq([i \in 1..n |->
                        IF validTerms[i] # center THEN <<>> ELSE contextAt(i)]),
          LAMBDA ctx :
            MapSeq(unique(ctx), LAMBDA key :
              [term |-> key,
               count |-> Cardinality({i \in 1..Len(ctx) : ctx[i] = key})]))

\* buildCoOccurrenceMatrix(text)
buildCoOccurrenceMatrix(text) ==
  With(validTermsOf(allTermsOf(text)), LAMBDA validTerms :
    [matrix |-> MapSeq(unique(validTerms), LAMBDA center :
                  [term |-> center, vector |-> vectorOf(validTerms, center)]),
     totalTerms |-> Len(validTerms)])

(***************************************************************************)
(* vectorizer.js: similarity and query expansion.  A Map is the sequence   *)
(* of its entries in insertion order: a matrix is a sequence of            *)
(* [term, vector], a vector a sequence of [term, count].                   *)
(***************************************************************************)
mapHas(map, key) == \E i \in 1..Len(map) : map[i].term = key

mapGet(map, key) == map[CHOOSE i \in 1..Len(map) : map[i].term = key]

\* a/c <= d/b for naturals with c > 0 and b > 0, by continued fractions, so
\* that no product leaves the 32-bit integers
RECURSIVE ratioLeq(_, _, _, _)
ratioLeq(a, c, d, b) ==
  IF a \div c # d \div b THEN a \div c < d \div b
  ELSE IF a % c = 0 THEN TRUE
  ELSE IF d % b = 0 THEN FALSE
  ELSE ratioLeq(b, d % b, c, a % c)

\* the largest k in 0..100 with (k/100)^2 <= dotProduct^2 / (mag1sq * mag2sq)
hundredths(dotProduct, mag1sq, mag2sq) ==
  LET reached(k) ==
        k = 0 \/ ratioLeq(k * mag1sq, 100 * dotProduct, 100 * dotProduct, k * mag2sq)
  IN IF dotProduct = 0 THEN 0
     ELSE CHOOSE k \in 0..100 : reached(k) /\ (k < 100 => ~reached(k + 1))

\* the similarity in hundredths, rounded down
cosineSimilarity(vec1, vec2) ==
  IF Len(vec1) = 0 \/ Len(vec2) = 0 THEN 0
  ELSE With([dotProduct |-> SumSeq([i \in 1..Len(vec1) |->
                              IF mapHas(vec2, vec1[i].term)
                              THEN vec1[i].count * mapGet(vec2, vec1[i].term).count
                              ELSE 0]),
             mag1sq |-> SumSeq([i \in 1..Len(vec1) |-> vec1[i].count * vec1[i].count]),
             mag2sq |-> SumSeq([i \in 1..Len(vec2) |-> vec2[i].count * vec2[i].count])],
            LAMBDA v :
              IF v.mag1sq = 0 \/ v.mag2sq = 0 THEN 0
              ELSE hundredths(v.dotProduct, v.mag1sq, v.mag2sq))

\* findSimilarTerms(queryTerm, coOccurrenceData, maxResults)
findSimilarTerms(rawQueryTerm, coOccurrenceData, maxResults) ==
  With(toLowerCase(rawQueryTerm), LAMBDA queryTerm :
    IF ~mapHas(coOccurrenceData.matrix, queryTerm) THEN <<>>
    ELSE With(mapGet(coOccurrenceData.matrix, queryTerm).vector, LAMBDA queryVector :
           With(StableSort(
                  FilterSeq(
                    MapSeq(coOccurrenceData.matrix, LAMBDA entry :
                      [term |-> entry.term,
                       similarity |-> cosineSimilarity(queryVector, entry.vector)]),
                    LAMBDA e : e.term # queryTerm /\ e.similarity >= minSimilarity),
                  LAMBDA a, b : b.similarity - a.similarity < 0),
                LAMBDA sorted :
                  SubSeq(sorted, 1, IF maxResults < Len(sorted) THEN maxResults
                                    ELSE Len(sorted)))))

\* getVectors(documentId): the stored index, or null
getVectors(store, documentId) ==
  LET hits == {i \in 1..Len(store.vectors) : store.vectors[i].documentId = documentId}
  IN IF hits = {} THEN Null ELSE Some(store.vectors[CHOOSE i \in hits : TRUE])

\* expandQuery lines 263-271: without an index, the tokens of the query
unexpandedTerms(queryText) ==
  MapSeq(tokenize(queryText), LAMBDA token :
    [originalTerm |-> token.term,
     expandedTerms |-> <<token.term>>,
     similarities |-> <<100>>])

\* expandQuery(queryText, documentId), after getVectors has resolved
expandQuery(queryText, vectors) ==
  IF vectors = Null
  THEN unexpandedTerms(queryText)
  ELSE MapSeq(unique(allTermsOf(queryText)), LAMBDA term :
         With(findSimilarTerms(term, vectors[1], maxExpansions),
              LAMBDA similar :
                [originalTerm |-> term,
                 expandedTerms |-> <<term>>
                                   \o [j \in 1..Len(similar) |-> similar[j].term],
                 similarities |-> <<100>>
                                  \o [j \in 1..Len(similar) |-> similar[j].similarity]]))

\* a merge that keeps the similarity of the document read last
mergeTermKeepsLast(merged, expandedTerm, newSim) ==
  [term |-> merged.term,
   expandedTerms |-> IF seqIncludes(merged.expandedTerms, expandedTerm)
                     THEN merged.expandedTerms
                     ELSE Append(merged.expandedTerms, expandedTerm),
   similarities |->
     [t \in DOMAIN merged.similarities \cup {expandedTerm} |->
        IF t = expandedTerm THEN newSim ELSE merged.similarities[t]]]

\* expandQueryMultiDoc lines 332-340: one expanded term of a concept added
\* to the merged entry of its original term
mergeTerm(merged, expandedTerm, newSim) ==
  LET existingSim == IF expandedTerm \in DOMAIN merged.similarities
                     THEN merged.similarities[expandedTerm] ELSE 0
  IN [term |-> merged.term,
      expandedTerms |-> IF seqIncludes(merged.expandedTerms, expandedTerm)
                        THEN merged.expandedTerms
                        ELSE Append(merged.expandedTerms, expandedTerm),
      similarities |->
        IF newSim > existingSim
        THEN [t \in DOMAIN merged.similarities \cup {expandedTerm} |->
                IF t = expandedTerm THEN newSim ELSE merged.similarities[t]]
        ELSE merged.similarities]

\* expandQueryMultiDoc lines 318-342: one document's concept merged into
\* allExpansions, a sequence of [term (the original term), expandedTerms,
\* similarities (term -> similarity)]
mergeConcept(allExpansions, concept) ==
  With(IF mapHas(allExpansions, concept.originalTerm) THEN allExpansions
       ELSE Append(allExpansions,
                   [term |-> concept.originalTerm,
                    expandedTerms |-> <<concept.originalTerm>>,
                    similarities |-> [t \in {concept.originalTerm} |-> 100]]),
       LAMBDA present :
         LET at == CHOOSE i \in 1..Len(present) : present[i].term = concept.originalTerm
             F[idx \in 0..Len(concept.expandedTerms)] ==
               IF idx = 0 THEN present[at]
               ELSE With(F[idx - 1], LAMBDA merged :
                      mergeTerm(merged, concept.expandedTerms[idx],
                                concept.similarities[idx]))
         IN [present EXCEPT ![at] = F[Len(concept.expandedTerms)]])

\* the body of "for (const docId of documentIds)" after expandQuery resolved
mergeDocExpansions(allExpansions, docExpansions) ==
  With(<<allExpansions, AsSeq(docExpansions)>>, LAMBDA a :
    LET F[i \in 0..Len(a[2])] ==
          IF i = 0 THEN a[1]
          ELSE With(F[i - 1], LAMBDA merged :
                 With(a[2][i], LAMBDA concept : mergeConcept(merged, concept)))
    IN F[Len(a[2])])

\* expandQueryMultiDoc lines 345-358: convert back to array format
expansionResult(allExpansions) ==
  MapSeq(allExpansions, LAMBDA data :
    [originalTerm |-> data.term,
     expandedTerms |-> data.expandedTerms,
     similarities |->
       [j \in 1..Len(data.expandedTerms) |->
          IF data.expandedTerms[j] \in DOMAIN data.similarities
          THEN data.similarities[data.expandedTerms[j]] ELSE 0] \o <<>>])

(***************************************************************************)
(* query-builder.js: the concept of a topic and the search format          *)
(***************************************************************************)
\* expandQueryTopics lines 564-573: the (term, similarity, isOriginal) of
\* every expanded term of every expansion, in order
metadataEntries(expansions) ==
  FlattenSeq(MapSeq(expansions, LAMBDA exp :
    [j \in 1..Len(exp.expandedTerms) |->
       [term |-> exp.expandedTerms[j],
        \* exp.similarities[idx] || 1.0
        similarity |-> IF exp.similarities[j] = 0 THEN 100 ELSE exp.similarities[j],
        isOriginal |-> exp.originalTerm = exp.expandedTerms[j]]] \o <<>>))

\* expandQueryTopics lines 555-586: the single concept built from the
\* expansions of a topic; termMetadata keeps the first entry of a term
singleConcept(topic, expansions) ==
  With(metadataEntries(expansions), LAMBDA entries :
    LET first(term) == entries[SetMin({i \in 1..Len(entries) : entries[i].term = term})]
    IN [conceptId |-> topic.topicId,
        terms |-> unique([i \in 1..Len(entries) |-> entries[i].term]),
        originalTerms |-> MapSeq(expansions, LAMBDA exp : exp.originalTerm),
        termMetadata |-> [term \in {entries[i].term : i \in 1..Len(entries)} |->
                            [similarity |-> first(term).similarity,
                             isOriginal |-> first(term).isOriginal]]])

\* String.prototype.split(/\s+/), without the empty strings
splitWords(rawText) ==
  With(AsSeq(rawText), LAMBDA text :
    LET n == Len(text)
        isSpace(i) == text[i] = " "
        starts == {i \in 1..n : ~isSpace(i) /\ (i = 1 \/ isSpace(i - 1))}
        wordFrom(i) ==
          SubSeq(text, i, CHOOSE e \in i..n :
                            /\ \A k \in i..e : ~isSpace(k)
                            /\ (e = n \/ isSpace(e + 1)))
        F[i \in 0..n] ==
          IF i = 0 THEN <<>>
          ELSE IF i \in starts THEN Append(F[i - 1], wordFrom(i)) ELSE F[i - 1]
    IN F[n])

\* convertToSearchFormat lines 753-764: the concept of a topic that was
\* not expanded
fallbackConcept(topic) ==
  With(FilterSeq(
         splitWords(FilterSeq(toLowerCase(topic.question),
                              LAMBDA c : c \notin {"?", ".", ",", "!"})),
         LAMBDA w : Len(w) > 2),
       LAMBDA words :
         [conceptId |-> topic.topicId,
          terms |-> words,
          originalTerms |-> words,
          termMetadata |-> <<>>])

\* convertToSearchFormat(query); topics[k].expandedConcepts is Null for a
\* topic that was not expanded
convertToSearchFormat(query) ==
  [version |-> "2.3",
   maxCharsPerSuperChunk |-> query.maxCharsPerSuperChunk,
   sourceType |-> query.sourceType,
   documentIds |-> query.documentIds,
   collectionId |-> query.collectionId,
   limitSuperChunks |-> query.limitSuperChunks,
   maxSuperChunksPerTopic |-> query.maxSuperChunksPerTopic,
   blocks |-> [index \in 1..Len(query.topics) |->
                 With(query.topics[index], LAMBDA topic :
                   [blockId |-> index,
                    topicId |-> topic.topicId,
                    topicQuestion |-> topic.question,
                    spatialCategory |-> topic.spatialCategory,
                    inclusionConcepts |->
                      IF topic.expandedConcepts # Null
                      THEN topic.expandedConcepts
                      ELSE <<fallbackConcept(topic)>>])] \o <<>>,
   allTopics |-> [k \in 1..Len(query.topics) |-> query.topics[k].question] \o <<>>]

(***************************************************************************)
(* search.js: hybrid scoring.  Scores are in hundredths of a point.        *)
(***************************************************************************)
originalTermWeight == 100

semanticWeight == 30

proximityWeight == 50

\* highSimilarityThreshold 0.7
highSimilarityThreshold == 70

minimumScoreThreshold == 30

proximityDistance == 200

\* a proximity score taken from the widest gap between matches
calculateProximityScoreOfWidestGap(content, matchedTerms) ==
  With(StableSort(FlattenSeq(MapSeq(matchedTerms, LAMBDA term :
                    occurrences(content, toLowerCase(term)))),
                  LAMBDA a, b : a - b < 0),
       LAMBDA positions :
         IF Len(positions) < 2 THEN 0
         ELSE With(-SetMin({positions[i] - positions[i + 1] :
                              i \in 1..(Len(positions) - 1)}),
                   LAMBDA maxDistance :
                     IF maxDistance <= proximityDistance
                     THEN (100 * proximityWeight * (proximityDistance - maxDistance))
                          \div proximityDistance
                     ELSE 0))

\* calculateProximityScore(content, matchedTerms), content in lower case
calculateProximityScore(content, matchedTerms) ==
  With(StableSort(FlattenSeq(MapSeq(matchedTerms, LAMBDA term :
                    occurrences(content, toLowerCase(term)))),
                  LAMBDA a, b : a - b < 0),
       LAMBDA positions :
         IF Len(positions) < 2 THEN 0
         ELSE With(SetMin({positions[i + 1] - positions[i] :
                             i \in 1..(Len(positions) - 1)}),
                   LAMBDA minDistance :
                     IF minDistance <= proximityDistance
                     \* 100 * proximityWeight * (1 - minDistance / proximityDistance)
                     THEN (100 * proximityWeight * (proximityDistance - minDistance))
                          \div proximityDistance
                     ELSE 0))

\* the contribution of one matched term to (originalTermScore, semanticScore)
termScore(term, concept) ==
  With(IF term \in DOMAIN concept.termMetadata
       THEN concept.termMetadata[term]
       ELSE [similarity |-> 50, isOriginal |-> FALSE],
       LAMBDA metadata :
         IF metadata.isOriginal \/ seqIncludes(concept.originalTerms, term)
         THEN [original |-> 100 * originalTermWeight, semantic |-> 0]
         ELSE IF metadata.similarity >= highSimilarityThreshold
              THEN [original |-> 0, semantic |-> semanticWeight * metadata.similarity]
              ELSE [original |-> 0,
                    semantic |-> (semanticWeight * metadata.similarity) \div 2])

\* scoreChunk lines 1203-1217: the score of the matched terms
scoreOfMatches(content, matchedTerms, concept) ==
  With([originalTermScore |->
          SumSeq(MapSeq(matchedTerms, LAMBDA term : termScore(term, concept).original)),
        semanticScore |->
          SumSeq(MapSeq(matchedTerms, LAMBDA term : termScore(term, concept).semantic)),
        proximityScore |->
          IF Len(matchedTerms) >= 2
          THEN calculateProximityScore(content, matchedTerms)
          ELSE 0],
       LAMBDA score :
         [totalScore |-> score.originalTermScore + score.semanticScore
                         + score.proximityScore,
          originalTermScore |-> score.originalTermScore,
          semanticScore |-> score.semanticScore,
          proximityScore |-> score.proximityScore,
          matchedTerms |-> matchedTerms,
          matchCount |-> Len(matchedTerms)])

scoreChunk(chunk, concept) ==
  With(toLowerCase(chunk.content), LAMBDA content :
    With(FilterSeq(concept.terms,
                   LAMBDA term : includes(content, toLowerCase(term))),
         LAMBDA matchedTerms : scoreOfMatches(content, matchedTerms, concept)))

(***************************************************************************)
(* search.js: spatial filtering and block execution                        *)
(***************************************************************************)
\* a pattern detected from the variance of the chunk numbers, not from their
\* standard deviation
detectSpatialPatternOfVariance(chunks) ==
  With([n |-> Len(chunks),
        sum |-> SumSeq([i \in 1..Len(chunks) |-> chunks[i].chunkNumber]),
        sumSquares |-> SumSeq([i \in 1..Len(chunks) |->
                                chunks[i].chunkNumber * chunks[i].chunkNumber])],
       LAMBDA v :
         IF v.n = 0 THEN "none"
         ELSE IF v.n = 1 THEN "single"
         ELSE IF v.n * v.sumSquares - v.sum * v.sum < 10 * v.n * v.n
              THEN "concentrated"
         ELSE IF v.n * v.sumSquares - v.sum * v.sum > 50 * v.n * v.n
              THEN "spread"
         ELSE "moderate")

\* calculateSpatialVariance and detectSpatialPattern: the standard deviation
\* sd of the chunk numbers satisfies sd < b iff n * sum(x^2) - sum(x)^2 <
\* (b * n)^2
detectSpatialPattern(chunks) ==
  With([n |-> Len(chunks),
        sum |-> SumSeq([i \in 1..Len(chunks) |-> chunks[i].chunkNumber]),
        sumSquares |-> SumSeq([i \in 1..Len(chunks) |->
                                chunks[i].chunkNumber * chunks[i].chunkNumber])],
       LAMBDA v :
         IF v.n = 0 THEN "none"
         ELSE IF v.n = 1 THEN "single"
         ELSE IF v.n * v.sumSquares - v.sum * v.sum < (10 * v.n) * (10 * v.n)
              THEN "concentrated"
         ELSE IF v.n * v.sumSquares - v.sum * v.sum > (50 * v.n) * (50 * v.n)
              THEN "spread"
         ELSE "moderate")

filterBySpatialCategory(chunks, category) ==
  With(detectSpatialPattern(chunks), LAMBDA pattern :
    IF category = "concentrated" /\ pattern = "concentrated" THEN chunks
    ELSE IF category = "spread" /\ pattern = "spread" THEN chunks
    ELSE IF category = "concentrated" \/ category = "spread" THEN <<>>
    ELSE chunks)

\* chunk with relevanceScore and scoreDetails
scoredChunk(chunk, concept) ==
  With(scoreChunk(chunk, concept), LAMBDA score :
    [id |-> chunk.id, documentId |-> chunk.documentId,
     collectionId |-> chunk.collectionId, chunkNumber |-> chunk.chunkNumber,
     content |-> chunk.content, charCount |-> chunk.charCount,
     relevanceScore |-> score.totalScore,
     scoreDetails |-> score])

\* executeBlockWithScoring lines 1141-1144: filter by minimum threshold
qualifyingChunksAnyMatch(scoredChunks) ==
  FilterSeq(scoredChunks, LAMBDA c : c.relevanceScore > 0)

qualifyingChunks(scoredChunks) ==
  FilterSeq(scoredChunks, LAMBDA c : c.relevanceScore >= 100 * minimumScoreThreshold)

executeBlockWithScoring(block, searchableChunks) ==
  IF Len(block.inclusionConcepts) = 0 THEN <<>>
  ELSE With(StableSort(
              qualifyingChunks(
                MapSeq(searchableChunks, LAMBDA chunk :
                  scoredChunk(chunk, block.inclusionConcepts[1]))),
              LAMBDA a, b : b.relevanceScore - a.relevanceScore < 0),
            LAMBDA sorted :
              IF block.spatialCategory # "auto"
              THEN filterBySpatialCategory(sorted, block.spatialCategory)
              ELSE sorted)

\* executeQuery lines 1008-1020: the result of block i; the block is scored
\* against its own concept only
topicResultWithFirstConcept(normalizedQuery, i, allChunks) ==
  With(normalizedQuery.blocks[i], LAMBDA block :
    With(executeBlockWithScoring(
           [block EXCEPT !.inclusionConcepts =
              normalizedQuery.blocks[1].inclusionConcepts], allChunks),
         LAMBDA scoredChunks :
           [topicId |-> block.topicId, topicQuestion |-> block.topicQuestion,
            chunks |-> scoredChunks, totalMatches |-> Len(scoredChunks)]))

topicResultOfBlock(normalizedQuery, i, allChunks) ==
  With(normalizedQuery.blocks[i], LAMBDA block :
    With(executeBlockWithScoring(block, allChunks), LAMBDA scoredChunks :
      [topicId |-> block.topicId, topicQuestion |-> block.topicQuestion,
       chunks |-> scoredChunks, totalMatches |-> Len(scoredChunks)]))

(***************************************************************************)
(* indexeddb.js: chunk reads.  store.chunks is in primary key order.       *)
(***************************************************************************)
getChunksByDocument(store, documentId) ==
  StableSort(FilterSeq(store.chunks, LAMBDA c : c.documentId = documentId),
             LAMBDA a, b : a.chunkNumber - b.chunkNumber < 0)

getChunksByCollection(store, collectionId) ==
  FilterSeq(store.chunks, LAMBDA c : c.collectionId = collectionId)

\* fetchChunksForQuery(queryStructure)
fetchChunksForQuery(store, queryStructure) ==
  IF queryStructure.sourceType = "documents"
  THEN FlattenSeq(MapSeq(queryStructure.documentIds, LAMBDA documentId :
                    getChunksByDocument(store, documentId)))
  ELSE IF queryStructure.sourceType = "collection"
  THEN getChunksByCollection(store, queryStructure.collectionId)
  ELSE <<>>

\* normalizeQueryStructure(query): a query of version 2.3 is returned as is
normalizeQueryStructure(query) ==
  IF query.version \in {"1.0", "2.0"}
  THEN [query EXCEPT !.version = "2.3"]
  ELSE query

(***************************************************************************)
(* search.js: topic result combination and super chunk limiting            *)
(***************************************************************************)
\* combineTopicResults: the chunks of all topics, first occurrence of each id
combineTopicResults(topicResults) ==
  FoldSeq(FlattenSeq(MapSeq(topicResults, LAMBDA topicResult : topicResult.chunks)),
          <<>>,
          LAMBDA kept, chunk :
            IF \E j \in 1..Len(kept) : kept[j].id = chunk.id
            THEN kept
            ELSE Append(kept, chunk))

\* a limiting step that keeps one SuperChunk too many per topic
limitStepOffByOne(acc, superChunk, maxPerTopic) ==
  IF Len(superChunk.topics) = 0 THEN acc
  ELSE LET primaryTopicId == superChunk.topics[1].topicId
           currentCount == IF primaryTopicId \in DOMAIN acc.topicCounts
                           THEN acc.topicCounts[primaryTopicId] ELSE 0
       IN IF currentCount <= maxPerTopic
          THEN [result |-> Append(acc.result, superChunk),
                topicCounts |->
                  [t \in DOMAIN acc.topicCounts \cup {primaryTopicId} |->
                     IF t = primaryTopicId THEN currentCount + 1
                     ELSE acc.topicCounts[t]]]
          ELSE acc

\* the loop body of limitSuperChunksPerTopic; acc = [result, topicCounts]
limitStep(acc, superChunk, maxPerTopic) ==
  IF Len(superChunk.topics) = 0 THEN acc
  ELSE LET primaryTopicId == superChunk.topics[1].topicId
           currentCount == IF primaryTopicId \in DOMAIN acc.topicCounts
                           THEN acc.topicCounts[primaryTopicId] ELSE 0
       IN IF currentCount < maxPerTopic
          THEN [result |-> Append(acc.result, superChunk),
                topicCounts |->
                  [t \in DOMAIN acc.topicCounts \cup {primaryTopicId} |->
                     IF t = primaryTopicId THEN currentCount + 1
                     ELSE acc.topicCounts[t]]]
          ELSE acc

limitSuperChunksPerTopic(allSuperChunks, numTopics, maxPerTopic) ==
  IF numTopics = 1
  THEN SubSeq(allSuperChunks, 1,
              IF maxPerTopic < Len(allSuperChunks) THEN maxPerTopic
              ELSE Len(allSuperChunks))
  ELSE FoldSeq(allSuperChunks, [result |-> <<>>, topicCounts |-> <<>>],
               LAMBDA acc, superChunk : limitStep(acc, superChunk, maxPerTopic)).result

(***************************************************************************)
(* search.js: chronological sorting, package header                        *)
(***************************************************************************)
chronologicalBefore(a, b) ==
  IF a.documentId # b.documentId
  THEN a.documentId - b.documentId < 0
  ELSE a.chunkNumber - b.chunkNumber < 0

\* a sort that compares chunkNumber only
sortChunksByChunkNumber(chunks) ==
  StableSort(chunks, LAMBDA a, b : a.chunkNumber - b.chunkNumber < 0)

sortChunksChronologically(chunks) == StableSort(chunks, chronologicalBefore)

\* formatChatPackageHeader(allTopics).length
formatChatPackageHeaderChars(allTopics) ==
    Len("[[chat package]]\n")
  + Len("[[Only respond with OK until all Super Chunks have been provided to you.]]\n\n")
  + Len("[[paste all super chunks sequentially]]\n\n")
  + Len("[[Answer questions ONLY from the provided content and tell user if other content is needed.]]\n\n")
  + Len("Questions:\n")
  + SumSeq([idx \in 1..Len(allTopics) |->
              Len("  Q") + NumChars(idx) + Len(": ") + Len(allTopics[idx]) + Len("\n")])
  + Len("\n")

(***************************************************************************)
(* search.js: createSuperChunksWithTopics                                  *)
(***************************************************************************)
\* topicHeaderText.length; topicNumber is topicIndex + 1
topicHeaderChars(topicNumber, topicResult) ==
    Len("\n[[topic ") + NumChars(topicNumber) + Len(": ")
  + Len(topicResult.topicQuestion) + Len("]]\n\n")

\* chunkFormatted.length
chunkChars(chunk) ==
    Len("[[chunk ") + NumChars(chunk.chunkNumber) + Len("]] (score: ")
  + toFixed1Chars(chunk.relevanceScore) + Len(")\n")
  + Len(chunk.content) + Len("\n\n")

newTopicSection(topicResult, isContinuation) ==
  [topicId |-> topicResult.topicId,
   topicQuestion |-> topicResult.topicQuestion,
   chunks |-> <<>>,
   isContinuation |-> isContinuation]

\* a continuation section that loses the chunk that did not fit
continuationSectionDropsChunk(topicResult, chunk) ==
  newTopicSection(topicResult, TRUE)

\* a continuation section that is not marked as one
continuationSectionUnmarked(topicResult, chunk) ==
  [newTopicSection(topicResult, FALSE) EXCEPT !.chunks = <<chunk>>]

\* lines 1437-1446: the section opened in the new super chunk, holding the
\* chunk that did not fit
continuationSection(topicResult, chunk) ==
  [newTopicSection(topicResult, TRUE) EXCEPT !.chunks = <<chunk>>]

\* the body of "for (const chunk of sortedChunks)"
\* st = [superChunks, currentChars, currentTopics, isFirstSuperChunk,
\*       currentTopicSection]
packChunk(st, chunk, topicNumber, topicResult, headerChars, maxCharsPerSuperChunk) ==
  LET sectionEmpty == Len(st.currentTopicSection.chunks) = 0
      requiredSpace == chunkChars(chunk)
                       + (IF sectionEmpty THEN topicHeaderChars(topicNumber, topicResult) ELSE 0)
      headerSpace == IF st.isFirstSuperChunk THEN headerChars ELSE 0
      totalIfAdded == headerSpace + st.currentChars + requiredSpace
  IN IF totalIfAdded > maxCharsPerSuperChunk
        /\ (Len(st.currentTopics) > 0 \/ ~sectionEmpty)
     THEN [superChunks |->
             Append(st.superChunks,
                    [topics |-> IF sectionEmpty THEN st.currentTopics
                                ELSE Append(st.currentTopics, st.currentTopicSection),
                     totalChars |-> st.currentChars + headerSpace,
                     isFirst |-> st.isFirstSuperChunk]),
           currentChars |-> topicHeaderChars(topicNumber, topicResult) + chunkChars(chunk),
           currentTopics |-> <<>>,
           isFirstSuperChunk |-> FALSE,
           currentTopicSection |-> continuationSection(topicResult, chunk)]
     ELSE [st EXCEPT
             !.currentTopicSection.chunks = Append(@, chunk),
             !.currentChars = @ + (IF sectionEmpty
                                   THEN topicHeaderChars(topicNumber, topicResult)
                                   ELSE 0)
                                + chunkChars(chunk)]

\* a topic loop that opens and saves a section for a topic without chunks
packTopicKeepsEmptySection(st, topicNumber, topicResult, headerChars, maxCharsPerSuperChunk) ==
  With(FoldSeq(sortChunksChronologically(topicResult.chunks),
               [st EXCEPT !.currentTopicSection = newTopicSection(topicResult, FALSE)],
               LAMBDA acc, chunk :
                 packChunk(acc, chunk, topicNumber, topicResult,
                           headerChars, maxCharsPerSuperChunk)),
       LAMBDA after :
         [after EXCEPT !.currentTopics = Append(@, after.currentTopicSection)])

\* the body of "for (let topicIndex ...)"
packTopic(st, topicNumber, topicResult, headerChars, maxCharsPerSuperChunk) ==
  IF Len(topicResult.chunks) = 0 THEN st
  ELSE With(FoldSeq(sortChunksChronologically(topicResult.chunks),
                    [st EXCEPT !.currentTopicSection = newTopicSection(topicResult, FALSE)],
                    LAMBDA acc, chunk :
                      packChunk(acc, chunk, topicNumber, topicResult,
                                headerChars, maxCharsPerSuperChunk)),
            LAMBDA after :
              IF Len(after.currentTopicSection.chunks) > 0
              THEN [after EXCEPT !.currentTopics = Append(@, after.currentTopicSection)]
              ELSE after)

createSuperChunksWithTopics(topicResults, maxCharsPerSuperChunk, allTopics) ==
  With(formatChatPackageHeaderChars(allTopics), LAMBDA headerChars :
    With(FoldSeq([i \in 1..Len(topicResults) |-> i],
                 [superChunks |-> <<>>, currentChars |-> 0, currentTopics |-> <<>>,
                  isFirstSuperChunk |-> TRUE,
                  currentTopicSection |->
                    [topicId |-> 0, topicQuestion |-> <<>>, chunks |-> <<>>,
                     isContinuation |-> FALSE]],
                 LAMBDA st, i :
                   packTopic(st, i, topicResults[i], headerChars, maxCharsPerSuperChunk)),
         LAMBDA final :
           IF Len(final.currentTopics) > 0
           THEN Append(final.superChunks,
                       [topics |-> final.currentTopics,
                        totalChars |-> final.currentChars
                                       + (IF final.isFirstSuperChunk THEN headerChars
                                          ELSE 0),
                        isFirst |-> final.isFirstSuperChunk])
           ELSE final.superChunks))

(***************************************************************************)
(* indexeddb.js: the read side of the store                                *)
(*   store.documents  sequence of [id, name]                               *)
(*   store.chunks     sequence of chunk records, in primary key order      *)
(*   store.vectors    sequence of [documentId, matrix]                     *)
(***************************************************************************)
getDocument(store, documentId) ==
  LET hits == {i \in 1..Len(store.documents) : store.documents[i].id = documentId}
  IN store.documents[CHOOSE i \in hits : TRUE]

(***************************************************************************)
(* search.js: formatting for the LLM.  The rendered text is the sequence   *)
(* of the pieces appended to output, each with its tag and its length.     *)
(***************************************************************************)
Piece(tag, len) == [tag |-> tag, len |-> len]

formatChunk(chunk) ==
  Piece("chunk",
          Len("[[chunk ") + NumChars(chunk.chunkNumber) + Len("]]")
        + (IF chunk.relevanceScore # 0
           THEN Len(" (score: ") + toFixed1Chars(chunk.relevanceScore) + Len(")")
           ELSE 0)
        + Len("\n") + Len(chunk.content) + Len("\n\n"))

formatTopicSection(store, topicSection) ==
  LET continuationMarker == IF topicSection.isContinuation THEN " (continued)" ELSE ""
      firstChunk == topicSection.chunks[1]
      doc == getDocument(store, firstChunk.documentId)
  IN <<Piece(IF topicSection.isContinuation THEN "topicContinued" ELSE "topic",
               Len("[[topic: ") + Len(topicSection.topicQuestion)
             + Len(continuationMarker) + Len("]]\n\n")),
       Piece("document", Len("[[document: ") + Len(doc.name) + Len("]]\n\n"))>>
     \o MapSeq(topicSection.chunks, formatChunk)

\* lines 1543-1546: header (only in first super chunk)
packageHeaderPieces(superChunk, allTopics) ==
  IF superChunk.isFirst /\ allTopics # Null
  THEN <<Piece("packageHeader", formatChatPackageHeaderChars(allTopics[1]))>>
  ELSE <<>>

\* lines 1548-1553: super chunk marker
superChunkMarkerPieces(superChunkNumber, totalSuperChunks) ==
     <<Piece("superChunkMarker",
               Len("[[super chunk ") + NumChars(superChunkNumber) + Len(" of ")
             + NumChars(totalSuperChunks) + Len("]]\n"))>>
  \o (IF superChunkNumber > 1
      THEN <<Piece("continuedMarker", Len("[[continued from previous super chunk]]\n"))>>
      ELSE <<>>)
  \o <<Piece("blank", Len("\n"))>>

\* a footer that closes the package in every super chunk
footerPiecesAlwaysClosing(superChunkNumber, totalSuperChunks) ==
  <<Piece("superChunkFooter",
          Len("[[/super chunk ") + NumChars(superChunkNumber) + Len("]]\n")),
    Piece("packageFooter", Len("\n[[/chat package]]"))>>

\* lines 1578-1584: super chunk footer, package footer (only in last super chunk)
footerPieces(superChunkNumber, totalSuperChunks) ==
     <<Piece("superChunkFooter",
             Len("[[/super chunk ") + NumChars(superChunkNumber) + Len("]]\n"))>>
  \o (IF superChunkNumber = totalSuperChunks
      THEN <<Piece("packageFooter", Len("\n[[/chat package]]"))>>
      ELSE <<>>)

formatSuperChunkContent(store, superChunk, superChunkNumber, totalSuperChunks, allTopics) ==
     packageHeaderPieces(superChunk, allTopics)
  \o superChunkMarkerPieces(superChunkNumber, totalSuperChunks)
  \o FlattenSeq(MapSeq(superChunk.topics, LAMBDA topicSection :
                 formatTopicSection(store, topicSection)))
  \o footerPieces(superChunkNumber, totalSuperChunks)

contentLength(content) == SumSeq([i \in 1..Len(content) |-> content[i].len])

formatSuperChunks(store, superChunks, allTopics) ==
  MapSeq([i \in 1..Len(superChunks) |-> i], LAMBDA i :
    With(formatSuperChunkContent(store, superChunks[i], i, Len(superChunks),
                                 IF i = 1 THEN Some(allTopics) ELSE Null),
         LAMBDA content :
           [index |-> i - 1,
            chunkCount |-> SumSeq([t \in 1..Len(superChunks[i].topics) |->
                                     Len(superChunks[i].topics[t].chunks)]),
            charCount |-> contentLength(content),
            formattedContent |-> content]))

(***************************************************************************)
(* The explored inputs: stored documents and questions                     *)
(***************************************************************************)
SP == <<" ">>

fuel == <<"f", "u", "e", "l">>

pump == <<"p", "u", "m", "p">>

gps == <<"g", "p", "s">>

line == <<"l", "i", "n", "e">>

the == <<"t", "h", "e">>

is == <<"i", "s">>

on == <<"o", "n">>

StoredChunk(id, documentId, chunkNumber, content) ==
  [id |-> id, documentId |-> documentId, collectionId |-> 7,
   chunkNumber |-> chunkNumber, content |-> content, charCount |-> Len(content)]

StoredDocuments ==
  <<[id |-> 1, name |-> "manual.txt"], [id |-> 2, name |-> "notes.txt"]>>

StoredChunks ==
  <<StoredChunk(1, 1, 0, fuel \o SP \o pump),
    StoredChunk(2, 1, 1, gps),
    StoredChunk(3, 1, 2, line \o SP \o gps),
    StoredChunk(4, 2, 0, pump \o SP \o line \o SP \o is \o SP \o on \o SP \o the
                         \o SP \o fuel \o SP \o line),
    StoredChunk(5, 2, 1, the \o SP \o pump)>>

valve == <<"v", "a", "l", "v", "e">>

\* the library: the stored documents and a third one, processed after them
LibraryDocuments == StoredDocuments \o <<[id |-> 3, name |-> "service.txt"]>>

LibraryChunks ==
  StoredChunks
  \o <<StoredChunk(6, 3, 0, pump \o SP \o line \o SP \o valve),
       StoredChunk(7, 3, 1, pump \o SP \o valve \o SP \o line)>>

\* the relevance rankings (by chunk id) a topic result of the packing
\* specification is drawn from
PackRankings ==
  {<<>>, <<2>>, <<4>>, <<4, 2>>, <<3, 2>>, <<2, 4>>, <<4, 3, 2>>, <<3, 4, 2>>,
   <<5, 4, 3, 2>>}

\* relevance scores by rank, strictly descending as the ranking leaves them
ScoreLadder == <<35000, 10000, 6300, 3000>>

Questions == <<fuel \o SP \o pump, gps, fuel>>

MaxCharsChoices == {50, 100, 360, 1000}

\* (limitSuperChunks, maxSuperChunksPerTopic)
LimitChoices == {<<FALSE, 3>>, <<TRUE, 1>>, <<TRUE, 2>>}

\* a catch that logs and alerts without hiding the progress
searchAbortedKeepsProgress(search) ==
  [search EXCEPT !.pc = "caught",
                 !.errorLog = @ \o <<"Query Engine: Execution error", "Search error:">>]

\* a storage read of executeQuery rejects: executeQuery logs and rethrows
\* (lines 1067-1070), executeSearch logs, hides the progress and alerts
\* (lines 739-743)
searchAborted(search) ==
  [search EXCEPT !.pc = "failed",
                 !.errorLog = @ \o <<"Query Engine: Execution error", "Search error:">>]

\* expandQueryTopics line 536: getChunksByCollection rejects; the error
\* reaches the catch of executeSearch
FailCollectionRead(r) ==
  /\ run[r].pc = "collect"
  /\ run' = [run EXCEPT ![r].pc = "failed",
                        ![r].errorLog = Append(@, "Search error:")]
  /\ UNCHANGED db

\* expandQueryTopics lines 551-554 and 595-598: the getVectors of a document
\* of topic t rejects; the catch of the topic logs and returns the topic as
\* it was
FailVectorsRead(r, t) ==
  /\ run[r].pc = "expand"
  /\ t \in DOMAIN run[r].tasks
  /\ run[r].tasks[t].next <= Len(run[r].documentIds)
  /\ run' = [run EXCEPT
       ![r].tasks[t] = [next |-> Len(run[r].documentIds) + 1,
                        allExpansions |-> <<>>,
                        value |-> Some(run[r].query.topics[t])],
       ![r].settled = Append(@, t),
       ![r].errorLog = Append(@, "Error expanding topic:")]
  /\ UNCHANGED db

\* fetchChunksForQuery lines 1105-1112: getChunksByDocument or
\* getChunksByCollection rejects
FailChunksRead(r) ==
  /\ run[r].pc = "fetch"
  /\ \/ run[r].searchQuery.sourceType = "collection"
     \/ /\ run[r].searchQuery.sourceType = "documents"
        /\ Len(run[r].searchQuery.documentIds) > 0
  /\ run' = [run EXCEPT ![r] = searchAborted(run[r])]
  /\ UNCHANGED db

\* formatSuperChunkContent line 1562: the getDocument of a topic section
\* rejects
FailDocumentRead(r) ==
  /\ run[r].pc = "format"
  /\ \E i \in 1..Len(run[r].finalSuperChunks) :
       Len(run[r].finalSuperChunks[i].topics) > 0
  /\ run' = [run EXCEPT ![r] = searchAborted(run[r])]
  /\ UNCHANGED db

(***************************************************************************)
(* search.js: executeQuery, from the scored topic results to the result    *)
(***************************************************************************)
\* executeQuery lines 1023-1051: combine, pack and limit (no suspension point)
PackSuperChunks(r) ==
  /\ run[r].pc = "pack"
  /\ LET normalizedQuery == run[r].searchQuery
         topicResults == run[r].topicResults
     IN run' = [run EXCEPT ![r] =
          With(createSuperChunksWithTopics(topicResults,
                                           normalizedQuery.maxCharsPerSuperChunk,
                                           normalizedQuery.allTopics),
               LAMBDA allSuperChunks :
                 [run[r] EXCEPT
                    !.pc = "format",
                    !.totalChunks = Len(combineTopicResults(topicResults)),
                    !.allSuperChunks = allSuperChunks,
                    !.finalSuperChunks =
                      IF normalizedQuery.limitSuperChunks
                         /\ normalizedQuery.maxSuperChunksPerTopic # 0
                      THEN limitSuperChunksPerTopic(allSuperChunks, Len(topicResults),
                                                    normalizedQuery.maxSuperChunksPerTopic)
                      ELSE allSuperChunks])]
  /\ UNCHANGED db

\* executeQuery lines 1053-1065: format (awaits getDocument) and return
FormatResults(r) ==
  /\ run[r].pc = "format"
  /\ run' = [run EXCEPT
       ![r].pc = "done",
       ![r].result =
         [totalChunks |-> run[r].totalChunks,
          topicResults |-> run[r].topicResults,
          superChunks |-> formatSuperChunks(db, run[r].finalSuperChunks,
                                            run[r].searchQuery.allTopics)]]
  /\ UNCHANGED db

(***************************************************************************)
(* query-builder.js: executeSearch.  run[r].state is the query builder     *)
(* state the search r is started from; run[r].pc is the await the search   *)
(* is suspended at.                                                        *)
(***************************************************************************)
\* a flag that is reset as soon as executeQuery has returned
searchInProgressUntilQueryReturns ==
  \E r \in DOMAIN run :
    run[r].pc \notin {"search", "ignored", "rejected", "done", "delay90", "delay100",
                      "shown", "failed"}

\* state.searchInProgress: set by showSearchProgress (line 692), reset by
\* hideSearchProgress (lines 736 and 741); it stays set while executeSearch
\* waits for its three timers after executeQuery returned (pc "done",
\* "delay90", "delay100")
searchInProgress ==
  \E r \in DOMAIN run :
    run[r].pc \notin {"search", "ignored", "rejected", "shown", "failed"}

\* validateQuery(): the errors
validateQuery(state) ==
     (IF state.sourceType = "documents" /\ Len(state.selectedDocuments) = 0
      THEN <<"Please select at least one document">> ELSE <<>>)
  \* !state.selectedCollection: no collection is 0
  \o (IF state.sourceType = "collection" /\ state.selectedCollection = 0
      THEN <<"Please select a collection">> ELSE <<>>)
  \* !state.accountTier: no tier is ""
  \o (IF state.accountTier = ""
      THEN <<"Please select your AI chat window size">> ELSE <<>>)
  \o (IF Len(state.queryTopics) = 0
      THEN <<"Please add at least one search topic">> ELSE <<>>)
  \o FlattenSeq([i \in 1..Len(state.queryTopics) |->
        IF FilterSeq(state.queryTopics[i].question, LAMBDA c : c # " ") = <<>>
        THEN <<"Please enter a question or search terms">> ELSE <<>>])

\* config.js TIERS
TIERS ==
  [standard |-> [id |-> "standard", name |-> "Standard",
                 superChunkSize |-> 30000, packageSize |-> 75000],
   large |-> [id |-> "large", name |-> "Large",
              superChunkSize |-> 100000, packageSize |-> 150000]]

\* getTier(tierId): this.TIERS[tierId] || this.TIERS.standard
getTier(tierId) == IF tierId \in DOMAIN TIERS THEN TIERS[tierId] ELSE TIERS.standard

\* generateQueryStructure()
generateQueryStructure(state) ==
  [version |-> "2.3",
   accountTier |-> state.accountTier,
   tierName |-> getTier(state.accountTier).name,
   maxCharsPerSuperChunk |-> state.maxCharsPerSuperChunk,
   sourceType |-> state.sourceType,
   documentIds |-> IF state.sourceType = "documents" THEN state.selectedDocuments
                   ELSE <<>>,
   collectionId |-> IF state.sourceType = "collection" THEN state.selectedCollection
                    ELSE 0,
   vectorizationEnabled |-> state.vectorizationEnabled,
   limitSuperChunks |-> state.limitSuperChunks,
   maxSuperChunksPerTopic |-> state.maxSuperChunksPerTopic,
   topics |-> [i \in 1..Len(state.queryTopics) |->
                 [topicId |-> state.queryTopics[i].topicId,
                  question |-> state.queryTopics[i].question,
                  spatialCategory |-> state.queryTopics[i].spatialCategory,
                  expandedConcepts |-> Null]]]

\* expandQueryTopics line 549: the per-topic expansions start, each
\* suspended at the getVectors of the first document
spawnExpansions(query) ==
  [t \in 1..Len(query.topics) |-> [next |-> 1, allExpansions |-> <<>>, value |-> Null]]

\* expandQueryTopics lines 555-594: the topic a settled expansion returns
expandedTopic(topic, expansions) ==
  With(singleConcept(topic, expansions), LAMBDA concept :
    [topic EXCEPT !.expandedConcepts = <<concept>>])

\* Promise.all: the values in the order of the promises, whatever the order
\* they settled in
expandedTopicsAsSettled(tasks, settled) ==
  [i \in 1..Len(settled) |-> tasks[settled[i]].value[1]]

expandedTopics(tasks, settled) ==
  [t \in 1..Len(tasks) |-> tasks[t].value[1]]

\* executeSearch lines 677-711: up to the first await
StartSearch(r) ==
  /\ run[r].pc = "search"
  \* run[r] is the r-th search of the session
  /\ \A earlier \in 1..(r - 1) : run[earlier].pc # "search"
  /\ ~searchInProgress
  /\ LET state == run[r].state
         query == generateQueryStructure(state)
     IN IF validateQuery(state) # <<>>
        THEN run' = [run EXCEPT ![r].pc = "rejected"]
        ELSE IF ~state.vectorizationEnabled
        THEN run' = [run EXCEPT ![r].pc = "fetch",
                                ![r].query = query,
                                ![r].searchQuery =
                                  normalizeQueryStructure(convertToSearchFormat(query))]
        ELSE IF query.sourceType = "collection"
        THEN run' = [run EXCEPT ![r].pc = "collect", ![r].query = query]
        ELSE run' = [run EXCEPT ![r].pc = "expand",
                                ![r].query = query,
                                ![r].documentIds = query.documentIds,
                                ![r].tasks = spawnExpansions(query)]
  /\ UNCHANGED db

\* expandQueryTopics lines 534-547: getChunksByCollection has resolved
ResolveCollection(r) ==
  /\ run[r].pc = "collect"
  /\ LET query == run[r].query
     IN run' = [run EXCEPT ![r] =
          With(unique(MapSeq(getChunksByCollection(db, query.collectionId),
                             LAMBDA chunk : chunk.documentId)),
               LAMBDA documentIds :
                 IF Len(documentIds) = 0
                 THEN [run[r] EXCEPT
                         !.pc = "fetch",
                         !.searchQuery =
                           normalizeQueryStructure(convertToSearchFormat(query))]
                 ELSE [run[r] EXCEPT
                         !.pc = "expand",
                         !.documentIds = documentIds,
                         !.tasks = spawnExpansions(query)])]
  /\ UNCHANGED db

\* expandQueryMultiDoc: the getVectors of the next document of topic t has
\* resolved; its expansions are merged, and after the last document the
\* expansion of the topic settles
ExpandStep(r, t) ==
  /\ run[r].pc = "expand"
  /\ t \in DOMAIN run[r].tasks
  /\ run[r].tasks[t].next <= Len(run[r].documentIds)
  /\ LET task == run[r].tasks[t]
         topic == run[r].query.topics[t]
         docId == run[r].documentIds[task.next]
         last == task.next = Len(run[r].documentIds)
     IN run' = [run EXCEPT
          ![r].tasks[t] =
            With(mergeDocExpansions(task.allExpansions,
                                    expandQuery(topic.question, getVectors(db, docId))),
                 LAMBDA allExpansions :
                   [next |-> task.next + 1,
                    allExpansions |-> allExpansions,
                    value |-> IF last
                              THEN Some(expandedTopic(topic,
                                                      expansionResult(allExpansions)))
                              ELSE Null]),
          ![r].settled = IF last THEN Append(@, t) ELSE @]
  /\ UNCHANGED db

\* expandQueryTopics lines 599-611 and executeSearch lines 713-723: every
\* expansion has settled; the search format is built and executeQuery
\* starts to fetch the chunks
FinishExpansion(r) ==
  /\ run[r].pc = "expand"
  /\ Len(run[r].settled) = Len(run[r].tasks)
  /\ run' = [run EXCEPT ![r] =
       With([run[r].query EXCEPT
               !.topics = AsSeq(expandedTopics(run[r].tasks, run[r].settled))],
            LAMBDA expandedQuery :
              [run[r] EXCEPT
                 !.pc = "fetch",
                 !.query = expandedQuery,
                 !.tasks = <<>>,
                 !.settled = <<>>,
                 !.searchQuery =
                   normalizeQueryStructure(convertToSearchFormat(expandedQuery))])]
  /\ UNCHANGED db

\* executeQuery lines 997-998: the chunks of the query have been read
FetchChunks(r) ==
  /\ run[r].pc = "fetch"
  /\ run' = [run EXCEPT ![r].pc = "score",
                        ![r].allChunks = fetchChunksForQuery(db, run[r].searchQuery)]
  /\ UNCHANGED db

\* executeQuery lines 1005-1020: one iteration of the loop over the blocks
ScoreBlock(r) ==
  /\ run[r].pc = "score"
  /\ LET i == Len(run[r].topicResults) + 1
         blocks == run[r].searchQuery.blocks
     IN /\ i <= Len(blocks)
        /\ run' = [run EXCEPT
             ![r].topicResults =
               Append(@, topicResultOfBlock(run[r].searchQuery, i, run[r].allChunks)),
             ![r].pc = IF i = Len(blocks) THEN "pack" ELSE "score"]
  /\ UNCHANGED db

\* executeSearch lines 724-731: the timer after "80%" or after "90%" fires
TimerFires(r) ==
  /\ run[r].pc \in {"done", "delay90"}
  /\ run' = [run EXCEPT ![r].pc = IF run[r].pc = "done" THEN "delay90" ELSE "delay100"]
  /\ UNCHANGED db

\* executeSearch lines 733-737: the last timer fires, the progress is hidden
\* and the results are displayed
ShowResults(r) ==
  /\ run[r].pc = "delay100"
  /\ run' = [run EXCEPT ![r].pc = "shown"]
  /\ UNCHANGED db

(***************************************************************************)
(* The packing specification: executeQuery from every ranked topic result  *)
(***************************************************************************)
Store(vectors) ==
  [documents |-> StoredDocuments, chunks |-> StoredChunks, vectors |-> vectors]

QuestionOf(k) == Questions[((k - 1) % Len(Questions)) + 1]

NewRun ==
  [pc |-> "search", state |-> <<>>, query |-> <<>>, documentIds |-> <<>>,
   tasks |-> <<>>, settled |-> <<>>, searchQuery |-> <<>>,
   allChunks |-> <<>>, topicResults |-> <<>>, totalChunks |-> 0,
   allSuperChunks |-> <<>>, finalSuperChunks |-> <<>>, result |-> <<>>,
   \* the messages of console.error
   errorLog |-> <<>>]

\* the ranked lists of distinct chunks, at most MaxChunksPerTopic of them
ChunkLists ==
  {[i \in 1..Len(p) |-> StoredChunks[p[i]]] :
     p \in {q \in PackRankings : Len(q) <= MaxChunksPerTopic}}

Ranked(s) ==
  [i \in 1..Len(s) |->
     [id |-> s[i].id, documentId |-> s[i].documentId,
      collectionId |-> s[i].collectionId, chunkNumber |-> s[i].chunkNumber,
      content |-> s[i].content, charCount |-> s[i].charCount,
      relevanceScore |-> ScoreLadder[i]]]

TopicResultChoices(k) ==
  {[topicId |-> k, topicQuestion |-> QuestionOf(k),
    chunks |-> Ranked(s), totalMatches |-> Len(s)] : s \in ChunkLists}

PackQuery(n, maxChars, limit) ==
  [version |-> "2.3",
   maxCharsPerSuperChunk |-> maxChars,
   limitSuperChunks |-> limit[1],
   maxSuperChunksPerTopic |-> limit[2],
   blocks |-> [k \in 1..n |-> [topicId |-> k, topicQuestion |-> QuestionOf(k)]],
   allTopics |-> [k \in 1..n |-> QuestionOf(k)]]

InitPack ==
  /\ db = Store(<<>>)
  /\ \E n \in 1..MaxTopics, maxChars \in MaxCharsChoices, limit \in LimitChoices :
       \E trs \in [1..n -> UNION {TopicResultChoices(k) : k \in 1..n}] :
         /\ \A k \in 1..n : trs[k].topicId = k
         /\ run = <<[NewRun EXCEPT !.pc = "pack",
                                   !.searchQuery = PackQuery(n, maxChars, limit),
                                   !.topicResults = trs]>>

NextPack == \E r \in DOMAIN run : PackSuperChunks(r) \/ FormatResults(r)

SpecPack == InitPack /\ [][NextPack]_vars

(***************************************************************************)
(* The search specification: one search, from the click to the result,     *)
(* over every explored store, source and topic list                        *)
(***************************************************************************)
\* the text a document was processed from: its chunks in order
documentText(documentId) ==
  LET chunks == getChunksByDocument(
                  [documents |-> LibraryDocuments, chunks |-> LibraryChunks,
                   vectors |-> <<>>], documentId)
      F[i \in 0..Len(chunks)] ==
        IF i = 0 THEN <<>>
        ELSE IF i = 1 THEN chunks[1].content
        ELSE F[i - 1] \o SP \o chunks[i].content
  IN F[Len(chunks)]

\* document-processor.js lines 298-300: the index stored for the document
vectorData(documentId) ==
  [documentId |-> documentId,
   matrix |-> buildCoOccurrenceMatrix(documentText(documentId)).matrix]

\* the store in which the documents of indexed have an index
IndexedStore(indexed) ==
  Store(FilterSeq([d \in 1..Len(StoredDocuments) |-> vectorData(StoredDocuments[d].id)],
                  LAMBDA v : v.documentId \in indexed))

IndexChoices == {{}, {2}, {1, 2}}

\* (question, spatialCategory)
TopicChoices ==
  <<<<fuel \o SP \o pump, "auto">>,
    <<<<"G", "P", "S", "?">>, "concentrated">>,
    <<pump, "spread">>>>

\* (sourceType, selectedDocuments, selectedCollection)
SourceChoices ==
  {<<"documents", <<1>>, 0>>, <<"documents", <<2, 1>>, 0>>,
   <<"documents", <<>>, 0>>, <<"collection", <<>>, 7>>, <<"collection", <<>>, 8>>}

\* (maxCharsPerSuperChunk, limitSuperChunks, maxSuperChunksPerTopic)
PackingChoices == {<<100, TRUE, 1>>, <<1000, FALSE, 3>>}

\* the topic lists of at most MaxTopics topics, as lists of indexes into
\* TopicChoices
TopicLists ==
  UNION {[1..n -> 1..Len(TopicChoices)] : n \in 1..MaxTopics}

queryTopics(picks) ==
  [i \in 1..Len(picks) |->
     [topicId |-> i,
      question |-> TopicChoices[picks[i]][1],
      spatialCategory |-> TopicChoices[picks[i]][2]]]

BuilderState(source, vectorizationEnabled, packing, picks) ==
  [sourceType |-> source[1],
   selectedDocuments |-> source[2],
   selectedCollection |-> source[3],
   accountTier |-> "standard",
   vectorizationEnabled |-> vectorizationEnabled,
   maxCharsPerSuperChunk |-> packing[1],
   limitSuperChunks |-> packing[2],
   maxSuperChunksPerTopic |-> packing[3],
   queryTopics |-> queryTopics(picks)]

Init ==
  /\ \E indexed \in IndexChoices : db = IndexedStore(indexed)
  /\ \E source \in SourceChoices, vectorizationEnabled \in BOOLEAN,
        packing \in PackingChoices, picks \in TopicLists :
       run = <<[NewRun EXCEPT !.state = BuilderState(source, vectorizationEnabled,
                                                     packing, picks)]>>

Next ==
  \E r \in DOMAIN run :
    \/ StartSearch(r)
    \/ ResolveCollection(r)
    \/ \E t \in DOMAIN run[r].tasks : ExpandStep(r, t)
    \/ FinishExpansion(r)
    \/ FetchChunks(r)
    \/ ScoreBlock(r)
    \/ PackSuperChunks(r)
    \/ FormatResults(r)
    \/ TimerFires(r)
    \/ ShowResults(r)

Spec == Init /\ [][Next]_vars

(***************************************************************************)
(* The two-search specification: a session runs a second search after the  *)
(* first, over the same store and source, with the same topic list or one  *)
(* that differs from it in one topic                                       *)
(***************************************************************************)
\* another topic than TopicChoices[x]
otherTopic(x) == (x % Len(TopicChoices)) + 1

\* the topic lists the second search is run with after a search with picks:
\* the same list, the list with one topic replaced, the list with a topic
\* put in front
TopicListVariants(picks) ==
  {picks}
  \cup {[picks EXCEPT ![k] = otherTopic(picks[k])] : k \in DOMAIN picks}
  \cup {<<otherTopic(picks[1])>> \o picks : x \in {y \in {1} : Len(picks) < MaxTopics}}

PairSourceChoices == {<<"documents", <<2, 1>>, 0>>, <<"collection", <<>>, 7>>}

InitPair ==
  /\ db = IndexedStore({1, 2})
  /\ \E source \in PairSourceChoices, packing \in PackingChoices, picks \in TopicLists :
       \E again \in TopicListVariants(picks) :
         run = <<[NewRun EXCEPT !.state = BuilderState(source, TRUE, packing, picks)],
                 [NewRun EXCEPT !.state = BuilderState(source, TRUE, packing, again)]>>

SpecPair == InitPair /\ [][Next]_vars

(***************************************************************************)
(* The library specification: one search over the library of three         *)
(* documents, with questions of several terms, every account tier value,   *)
(* and storage reads that may reject                                       *)
(***************************************************************************)
Library(vectors) ==
  [documents |-> LibraryDocuments, chunks |-> LibraryChunks, vectors |-> vectors]

\* the library in which the documents of indexed have an index
IndexedLibrary(indexed) ==
  Library(FilterSeq(MapSeq(LibraryDocuments, LAMBDA d : vectorData(d.id)),
                    LAMBDA v : v.documentId \in indexed))

LibraryIndexChoices == {{}, {3}, {2, 3}}

\* the questions of the topics: two original terms that are neighbours in
\* the indexes, a stopword, white space only
LibraryQuestions == <<pump \o SP \o line, the \o SP \o pump, SP \o SP>>

\* the topic lists, as lists of indexes into LibraryQuestions
LibraryTopicLists ==
  {picks \in {<<>>, <<1>>, <<2>>, <<3>>, <<1, 2>>, <<1, 3>>} : Len(picks) <= MaxTopics}

libraryTopics(picks) ==
  [i \in 1..Len(picks) |->
     [topicId |-> i, question |-> LibraryQuestions[picks[i]], spatialCategory |-> "auto"]]

LibrarySourceChoices ==
  {<<"documents", <<2, 3>>, 0>>, <<"documents", <<3, 2>>, 0>>,
   <<"documents", <<>>, 0>>, <<"collection", <<>>, 7>>, <<"collection", <<>>, 0>>}

\* the value of the selected option of accountTierSelect: a tier, none, a
\* legacy id that is no key of TIERS
TierChoices == {"standard", "", "free-chatgpt"}

InitLibrary ==
  /\ \E indexed \in LibraryIndexChoices : db = IndexedLibrary(indexed)
  /\ \E source \in LibrarySourceChoices, vectorizationEnabled \in BOOLEAN,
        tier \in TierChoices, picks \in LibraryTopicLists :
       run = <<[NewRun EXCEPT !.state =
                  [BuilderState(source, vectorizationEnabled, <<1000, FALSE, 3>>, <<>>)
                     EXCEPT !.accountTier = tier,
                            !.queryTopics = libraryTopics(picks)]]>>

NextLibrary ==
  \/ Next
  \/ \E r \in DOMAIN run :
       \/ FailCollectionRead(r)
       \/ \E t \in DOMAIN run[r].tasks : FailVectorsRead(r, t)
       \/ FailChunksRead(r)
       \/ FailDocumentRead(r)

SpecLibrary == InitLibrary /\ [][NextLibrary]_vars

(***************************************************************************)
(* chunker.js: sentences and chunks with overlap.  The texts hold none of  *)
(* the abbreviations splitIntoSentences protects.                          *)
(***************************************************************************)
\* String.prototype.trim
trim(text) ==
  With(AsSeq(text), LAMBDA t :
    LET kept == {i \in 1..Len(t) : t[i] # " "}
    IN IF kept = {} THEN <<>>
       ELSE SubSeq(t, SetMin(kept), -SetMin({-i : i \in kept})))

\* splitIntoSentences lines 59-74: the state of the loop after character i
sentenceStep(text, acc, i) ==
  With(Append(acc.currentSentence, text[i]), LAMBDA currentSentence :
    IF text[i] \in {".", "!", "?"} /\ i + 1 <= Len(text) /\ text[i + 1] = " "
    THEN [sentences |-> IF Len(trim(currentSentence)) > 0
                        THEN Append(acc.sentences, trim(currentSentence))
                        ELSE acc.sentences,
          currentSentence |-> <<>>]
    ELSE [sentences |-> acc.sentences, currentSentence |-> currentSentence])

\* splitIntoSentences(text)
splitIntoSentences(text) ==
  With(FoldSeq([i \in 1..Len(text) |-> i],
               [sentences |-> <<>>, currentSentence |-> <<>>],
               LAMBDA acc, i : sentenceStep(text, acc, i)),
       LAMBDA end :
         IF Len(trim(end.currentSentence)) > 0
         THEN Append(end.sentences, trim(end.currentSentence))
         ELSE end.sentences)

\* createChunksWithOverlap lines 186-199: "Build chunk up to target size",
\* from the sentence of 0-based index i
RECURSIVE buildChunk(_, _, _, _)
buildChunk(sentences, i, acc, targetSize) ==
  IF i >= Len(sentences) THEN acc
  ELSE IF Len(acc.currentChunk) > 0
          /\ Len(acc.currentChunk) + Len(sentences[i + 1]) + 1 > targetSize
  THEN acc
  ELSE buildChunk(sentences, i + 1,
                  [currentChunk |-> (IF Len(acc.currentChunk) > 0
                                     THEN acc.currentChunk \o SP
                                     ELSE acc.currentChunk) \o sentences[i + 1],
                   sentenceCount |-> acc.sentenceCount + 1,
                   endSentenceIndex |-> i],
                  targetSize)

\* createChunksWithOverlap lines 212-221: the sentences that fit in the
\* overlap, from the sentence of index i back to startSentenceIndex
RECURSIVE overlapSentences(_, _, _, _, _)
overlapSentences(sentences, i, startSentenceIndex, acc, overlapSize) ==
  IF i < startSentenceIndex THEN acc
  ELSE IF Len(acc.overlapText) + Len(sentences[i + 1]) > overlapSize THEN acc
  ELSE overlapSentences(sentences, i - 1, startSentenceIndex,
                        [overlapText |-> sentences[i + 1] \o SP \o acc.overlapText,
                         overlapSentenceCount |-> acc.overlapSentenceCount + 1],
                        overlapSize)

\* createChunksWithOverlap lines 223-229: the start of the next chunk
nextStartSentenceIndex(built, overlapSentenceCount) ==
  With(built.endSentenceIndex + 1
         - (IF overlapSentenceCount > 1 THEN overlapSentenceCount ELSE 1),
       LAMBDA startSentenceIndex :
         IF startSentenceIndex <= built.endSentenceIndex - built.sentenceCount
         THEN built.endSentenceIndex + 1
         ELSE startSentenceIndex)

\* one iteration of the while loop of createChunksWithOverlap
chunkIteration(call) ==
  With(buildChunk(call.sentences, call.startSentenceIndex,
                  [currentChunk |-> <<>>, sentenceCount |-> 0,
                   endSentenceIndex |-> call.startSentenceIndex],
                  call.targetSize),
       LAMBDA built :
         With(overlapSentences(call.sentences, built.endSentenceIndex,
                               call.startSentenceIndex,
                               [overlapText |-> <<>>, overlapSentenceCount |-> 0],
                               call.overlapSize),
              LAMBDA overlap :
                [call EXCEPT
                   !.chunks = Append(@, [chunkNumber |-> Len(call.chunks),
                                         content |-> trim(built.currentChunk),
                                         charCount |-> Len(trim(built.currentChunk)),
                                         sentenceCount |-> built.sentenceCount,
                                         startSentence |-> call.startSentenceIndex,
                                         endSentence |-> built.endSentenceIndex]),
                   !.startSentenceIndex =
                     nextStartSentenceIndex(built, overlap.overlapSentenceCount)]))

(***************************************************************************)
(* The chunking specification: createChunksWithOverlap on every text of a  *)
(* few sentences, with small and default sizes                             *)
(***************************************************************************)
\* the longest text, in sentences
MaxSentences == 2

\* the chunks of a call the model keeps, more than a call that moves on by a
\* sentence per chunk pushes; of the chunks pushed after them only the parity
\* of their number is kept (the loop does not read the chunks)
MaxChunkCount == MaxSentences + 2

SentenceChoices ==
  <<on \o <<".">>, pump \o SP \o on \o <<"!">>,
    fuel \o SP \o pump \o SP \o line \o SP \o valve \o <<"?">>>>

\* the texts of 0..MaxSentences of the sentences
ChunkTexts ==
  {joinTexts([i \in DOMAIN ss |-> SentenceChoices[ss[i]]]) :
     ss \in UNION {[1..n -> 1..Len(SentenceChoices)] : n \in 0..MaxSentences}}

\* targetSize: room for one short sentence, DEFAULT_CHUNK_SIZE
TargetSizeChoices == {10, 2000}

\* overlapSize: none, one short sentence, OVERLAP_SIZE
OverlapSizeChoices == {0, 5, 200}

\* createChunksWithOverlap lines 174-178
StartChunking(r) ==
  /\ run[r].pc = "createChunksWithOverlap"
  /\ run' = [run EXCEPT ![r].pc = "while",
                        ![r].sentences = splitIntoSentences(run[r].text)]
  /\ UNCHANGED db

\* lines 180-230: the loop condition holds, one chunk is pushed
ChunkIteration(r) ==
  /\ run[r].pc = "while"
  /\ run[r].startSentenceIndex < Len(run[r].sentences)
  /\ run' = [run EXCEPT ![r] =
               IF Len(run[r].chunks) < MaxChunkCount
               THEN chunkIteration(run[r])
               ELSE [chunkIteration(run[r]) EXCEPT
                       !.chunks = run[r].chunks,
                       !.chunksBeyond = (run[r].chunksBeyond + 1) % 2]]
  /\ UNCHANGED db

\* lines 180 and 233: the loop condition fails, the chunks are returned
ReturnChunks(r) ==
  /\ run[r].pc = "while"
  /\ run[r].startSentenceIndex >= Len(run[r].sentences)
  /\ run' = [run EXCEPT ![r].pc = "returned"]
  /\ UNCHANGED db

InitChunk ==
  /\ db = Store(<<>>)
  /\ \E text \in ChunkTexts, targetSize \in TargetSizeChoices,
        overlapSize \in OverlapSizeChoices :
       run = <<[pc |-> "createChunksWithOverlap", text |-> text,
                targetSize |-> targetSize, overlapSize |-> overlapSize,
                sentences |-> <<>>, startSentenceIndex |-> 0, chunks |-> <<>>,
                chunksBeyond |-> 0]>>

NextChunk ==
  \E r \in DOMAIN run : StartChunking(r) \/ ChunkIteration(r) \/ ReturnChunks(r)

SpecChunk == InitChunk /\ [][NextChunk]_vars

\* the call is not suspended: it runs on while it has a step to take
SpecChunkFair == SpecChunk /\ WF_vars(NextChunk)

(***************************************************************************)
(* The indexing specification: step 5 of processDocument builds and stores *)
(* the index of one uploaded text, and findSimilarTerms is then asked for  *)
(* the neighbours of a term                                                *)
(***************************************************************************)
\* the longest uploaded text, in words
MaxWords == 6

IndexWords == <<pump, line, valve>>

joinWords(ws) ==
  LET F[i \in 0..Len(ws)] ==
        IF i = 0 THEN <<>>
        ELSE IF i = 1 THEN IndexWords[ws[1]]
        ELSE F[i - 1] \o SP \o IndexWords[ws[i]]
  IN F[Len(ws)]

\* the uploaded texts: every text of 1..MaxWords of the words
IndexTexts ==
  {joinWords(ws) : ws \in UNION {[1..n -> 1..Len(IndexWords)] : n \in 1..MaxWords}}

\* the values of InvantiaVectorizer.CONFIG.maxTerms: a small cap, the default
MaxTermsChoices == {2, maxTerms}

\* the values of maxResults
MaxResultsChoices == {1, 2, maxExpansions}

\* the store after steps 3 and 4 of processDocument: the document and its
\* chunk are saved, there is no index yet
UploadedStore(text) ==
  [documents |-> <<[id |-> 1, name |-> "upload.txt"]>>,
   chunks |-> <<StoredChunk(1, 1, 0, text)>>,
   vectors |-> <<>>]

\* addVectors(documentId, vectorData): store.put replaces the record of the key
addVectors(store, documentId, data) ==
  [store EXCEPT !.vectors =
     FilterSeq(store.vectors, LAMBDA v : v.documentId # documentId)
     \o <<[documentId |-> documentId, matrix |-> data.matrix]>>]

\* processDocument step 5, lines 292-303: build the index and store it
BuildVectors(r) ==
  /\ run[r].pc = "vectors"
  /\ db' = addVectors(db, run[r].docId, buildCoOccurrenceMatrix(run[r].text))
  /\ run' = [run EXCEPT ![r].pc = "complete"]

\* processDocument lines 306-310: addVectors rejects, the upload continues
\* without an index
FailAddVectors(r) ==
  /\ run[r].pc = "vectors"
  /\ run' = [run EXCEPT ![r].pc = "complete",
                        ![r].errorLog = Append(@, "Error building vectors:")]
  /\ UNCHANGED db

\* findSimilarTerms(queryTerm, vectors, maxResults) on the stored index
FindSimilar(r) ==
  /\ run[r].pc = "complete"
  /\ getVectors(db, run[r].docId) # Null
  /\ \E w \in DOMAIN IndexWords, maxResults \in MaxResultsChoices :
       run' = [run EXCEPT ![r] =
                 With(findSimilarTerms(IndexWords[w],
                                       getVectors(db, run[r].docId)[1], maxResults),
                      LAMBDA similar :
                        [run[r] EXCEPT !.pc = "found",
                                       !.queryTerm = IndexWords[w],
                                       !.maxResults = maxResults,
                                       !.similar = similar])]
  /\ UNCHANGED db

InitIndex ==
  \E text \in IndexTexts, cap \in MaxTermsChoices :
    /\ db = UploadedStore(text)
    /\ run = <<[pc |-> "vectors", docId |-> 1, text |-> text,
                CONFIG |-> [maxTerms |-> cap],
                queryTerm |-> <<>>, maxResults |-> 0, similar |-> <<>>,
                errorLog |-> <<>>]>>

NextIndex ==
  \E r \in DOMAIN run : BuildVectors(r) \/ FailAddVectors(r) \/ FindSimilar(r)

SpecIndex == InitIndex /\ [][NextIndex]_vars

(***************************************************************************)
(* The scoring specification: scoreChunk scores a chunk against a concept, *)
(* then the chunk with one more occurrence of a matched original term      *)
(***************************************************************************)
\* the longest chunk content, in words
MaxContentWords == 3

ScoreWords == <<pump, line, valve, fuel>>

\* the chunk contents: every text of 1..MaxContentWords of the words
ScoreContents ==
  {joinTexts([i \in DOMAIN ws |-> ScoreWords[ws[i]]]) :
     ws \in UNION {[1..n -> 1..Len(ScoreWords)] : n \in 1..MaxContentWords}}

\* the concept expandQueryTopics builds for the question from the index of
\* one document (Null: the document has no index)
expandedConcept(question, vectors) ==
  singleConcept([topicId |-> 1, question |-> question],
                expansionResult(mergeDocExpansions(<<>>, expandQuery(question, vectors))))

\* the concepts: of a topic that was not expanded, of a topic expanded
\* without an index, with the index of document 3 and that of document 2
ScoreConcepts ==
  {fallbackConcept([topicId |-> 1, question |-> pump \o SP \o line]),
   expandedConcept(pump \o SP \o line, Null),
   expandedConcept(pump \o SP \o line, Some(vectorData(3))),
   expandedConcept(fuel, Some(vectorData(2)))}

\* content with term put in as a word before its word number k + 1 (at the
\* end when there are k words)
insertWord(content, term, k) ==
  With(splitWords(content), LAMBDA words :
    joinTexts(SubSeq(words, 1, k) \o <<term>> \o SubSeq(words, k + 1, Len(words))))

\* executeBlockWithScoring line 1133: the chunk is scored
ScoreOnce(r) ==
  /\ run[r].pc = "scoreChunk"
  /\ run' = [run EXCEPT ![r].pc = "scored",
                        ![r].before = scoreChunk(run[r].chunk, run[r].concept)]
  /\ UNCHANGED db

\* the chunk is scored again with one more occurrence of an original term
\* it matches, the terms it matches being the same
ScoreWithOccurrence(r) ==
  /\ run[r].pc = "scored"
  /\ \E t \in DOMAIN run[r].before.matchedTerms,
        k \in 0..Len(splitWords(run[r].chunk.content)) :
       /\ seqIncludes(run[r].concept.originalTerms, run[r].before.matchedTerms[t])
       /\ run' = [run EXCEPT ![r] =
            With(insertWord(run[r].chunk.content, run[r].before.matchedTerms[t], k),
                 LAMBDA content :
                   [run[r] EXCEPT
                      !.pc = "rescored",
                      !.term = run[r].before.matchedTerms[t],
                      !.modified = [run[r].chunk EXCEPT !.content = content,
                                                        !.charCount = Len(content)],
                      !.after = scoreChunk([content |-> content], run[r].concept)])]
  /\ UNCHANGED db

InitScore ==
  \E content \in ScoreContents, concept \in ScoreConcepts :
    /\ db = UploadedStore(content)
    /\ run = <<[pc |-> "scoreChunk", chunk |-> StoredChunk(1, 1, 0, content),
                concept |-> concept, before |-> <<>>, term |-> <<>>,
                modified |-> <<>>, after |-> <<>>]>>

NextScore == \E r \in DOMAIN run : ScoreOnce(r) \/ ScoreWithOccurrence(r)

SpecScore == InitScore /\ [][NextScore]_vars

(***************************************************************************)
(* The deletion specification: deleteDocument(d) and its three             *)
(* transactions.  The request on the documents store is not awaited, so    *)
(* it completes at any point of the rest; a request may fail               *)
(***************************************************************************)
getAllDocuments(store) == store.documents

\* the documents deleteDocument is called for: the stored ones, one that is
\* not stored
DeleteChoices == {1, 2, 3, 9}

DeleteIndexChoices == {{}, {3}, {2, 3}, {1, 2, 3}}

\* deleteDocument lines 207-213: the delete request on documents is placed
\* (await of an IDBRequest continues at once), deleteChunksByDocument opens
\* its cursor over the chunks of the document
StartDelete(r) ==
  /\ run[r].pc = "deleteDocument"
  /\ run' = [run EXCEPT
       ![r].pc = "cursor",
       ![r].docRequest = "pending",
       ![r].chunksBefore = db.chunks,
       ![r].cursor = MapSeq(FilterSeq(db.chunks,
                                      LAMBDA c : c.documentId = run[r].documentId),
                            LAMBDA c : c.id)]
  /\ UNCHANGED db

\* the request on the documents store succeeds
DocumentDeleted(r) ==
  /\ run[r].docRequest = "pending"
  /\ db' = [db EXCEPT !.documents =
              FilterSeq(@, LAMBDA d : d.id # run[r].documentId)]
  /\ run' = [run EXCEPT ![r].docRequest = "done"]

\* the request on the documents store fails: it has no handler, its
\* transaction aborts, deleteDocument goes on
DocumentDeleteFails(r) ==
  /\ run[r].docRequest = "pending"
  /\ run' = [run EXCEPT ![r].docRequest = "aborted",
                        ![r].failed = @ \cup {"documents"}]
  /\ UNCHANGED db

\* deleteChunksByDocument lines 318-321: cursor.delete(); cursor.continue()
CursorDelete(r) ==
  /\ run[r].pc = "cursor"
  /\ run[r].cursor # <<>>
  /\ db' = [db EXCEPT !.chunks = FilterSeq(@, LAMBDA c : c.id # Head(run[r].cursor))]
  /\ run' = [run EXCEPT ![r].cursor = Tail(@)]

\* deleteChunksByDocument lines 322-324 and deleteDocument lines 215-216:
\* the cursor is at its end, deleteVectors places its request
CursorEnd(r) ==
  /\ run[r].pc = "cursor"
  /\ run[r].cursor = <<>>
  /\ run' = [run EXCEPT ![r].pc = "vectors"]
  /\ UNCHANGED db

\* a request of the chunks transaction fails: the transaction aborts and
\* undoes its deletions, the cursor request errors (line 327) and
\* deleteDocument rejects (lines 220-223)
CursorFails(r) ==
  /\ run[r].pc = "cursor"
  /\ db' = [db EXCEPT !.chunks = run[r].chunksBefore]
  /\ run' = [run EXCEPT ![r].pc = "rejected",
                        ![r].failed = @ \cup {"chunks"},
                        ![r].errorLog = Append(@, "Error deleting document:")]

\* deleteVectors lines 552-555 and deleteDocument lines 218-219
VectorsDeleted(r) ==
  /\ run[r].pc = "vectors"
  /\ db' = [db EXCEPT !.vectors =
              FilterSeq(@, LAMBDA v : v.documentId # run[r].documentId)]
  /\ run' = [run EXCEPT ![r].pc = "resolved"]

\* deleteVectors lines 557-560 and deleteDocument lines 220-223
VectorsDeleteFails(r) ==
  /\ run[r].pc = "vectors"
  /\ run' = [run EXCEPT ![r].pc = "rejected",
                        ![r].failed = @ \cup {"vectors"},
                        ![r].errorLog = Append(@, "Error deleting document:")]
  /\ UNCHANGED db

\* the caller reads the store back after deleteDocument resolved; a read of
\* the documents waits for the transaction that was opened before it
ReadBack(r) ==
  /\ run[r].pc = "resolved"
  /\ run[r].docRequest # "pending"
  /\ run' = [run EXCEPT
       ![r].pc = "observed",
       ![r].observed = [documents |-> getAllDocuments(db),
                        chunks |-> getChunksByDocument(db, run[r].documentId),
                        vectors |-> getVectors(db, run[r].documentId)]]
  /\ UNCHANGED db

InitDelete ==
  /\ \E indexed \in DeleteIndexChoices : db = IndexedLibrary(indexed)
  /\ \E d \in DeleteChoices :
       run = <<[pc |-> "deleteDocument", documentId |-> d, docRequest |-> "none",
                chunksBefore |-> <<>>, cursor |-> <<>>, failed |-> {},
                observed |-> <<>>, errorLog |-> <<>>]>>

NextDelete ==
  \E r \in DOMAIN run :
    \/ StartDelete(r)
    \/ DocumentDeleted(r)
    \/ DocumentDeleteFails(r)
    \/ CursorDelete(r)
    \/ CursorEnd(r)
    \/ CursorFails(r)
    \/ VectorsDeleted(r)
    \/ VectorsDeleteFails(r)
    \/ ReadBack(r)

SpecDelete == InitDelete /\ [][NextDelete]_vars

(***************************************************************************)
(* The spatial specification: one search for 'fuel pump' with each spatial *)
(* category over a document whose chunks lie close together, apart, or at  *)
(* the limits of the two patterns                                          *)
(***************************************************************************)
\* chunk numbers: 0 and 15 lie within a deviation of 10, 0 and 20 at it,
\* 0 and 100 at a deviation of 50, 0 and 120 beyond it
SpatialNumbers == {0, 15, 20, 100, 120, 130}

\* the ascending lists of at most MaxChunksPerTopic chunk numbers
SpatialNumberLists ==
  {numbers \in UNION {[1..n -> SpatialNumbers] : n \in 0..MaxChunksPerTopic} :
     \A i \in 1..(Len(numbers) - 1) : numbers[i] < numbers[i + 1]}

\* the document with a chunk at each of the numbers; the chunk numbered 130
\* does not match the question
SpatialStore(numbers) ==
  [documents |-> <<StoredDocuments[1]>>,
   chunks |-> [i \in 1..Len(numbers) |->
                 StoredChunk(i, 1, numbers[i],
                             IF numbers[i] = 130 THEN gps ELSE fuel \o SP \o pump)],
   vectors |-> <<>>]

SpatialCategories == {"auto", "concentrated", "spread"}

SpatialSourceChoices == {<<"documents", <<1>>, 0>>, <<"collection", <<>>, 7>>}

InitSpatial ==
  /\ \E numbers \in SpatialNumberLists : db = SpatialStore(numbers)
  /\ \E source \in SpatialSourceChoices, vectorizationEnabled \in BOOLEAN,
        category \in SpatialCategories :
       run = <<[NewRun EXCEPT !.state =
                  [BuilderState(source, vectorizationEnabled, <<1000, FALSE, 3>>, <<>>)
                     EXCEPT !.queryTopics =
                       <<[topicId |-> 1, question |-> fuel \o SP \o pump,
                          spatialCategory |-> category]>>]]>>

SpecSpatial == InitSpatial /\ [][Next]_vars

(***************************************************************************)
(* The click specification: the search button is clicked twice; the second *)
(* click comes at any point of the first search or after it, and a storage *)
(* read or the display of the results may throw                            *)
(***************************************************************************)
\* executeSearch lines 680-683: the call returns at once, a search is in
\* progress
IgnoredSearch(r) ==
  /\ run[r].pc = "search"
  /\ \A earlier \in 1..(r - 1) : run[earlier].pc # "search"
  /\ searchInProgress
  /\ run' = [run EXCEPT ![r].pc = "ignored"]
  /\ UNCHANGED db

\* executeSearch lines 733-743: the last timer fires, the progress is
\* hidden, displaySearchResults throws; the catch logs, hides the progress
\* again and alerts
DisplayFails(r) ==
  /\ run[r].pc = "delay100"
  /\ run' = [run EXCEPT ![r].pc = "failed",
                        ![r].errorLog = Append(@, "Search error:")]
  /\ UNCHANGED db

ClickIndexChoices == {{}, {1, 2}}

ClickSourceChoices ==
  {<<"documents", <<2, 1>>, 0>>, <<"documents", <<>>, 0>>, <<"collection", <<>>, 7>>}

\* the topic lists: one topic, two topics
ClickTopicLists == {picks \in {<<1>>, <<2, 3>>} : Len(picks) <= MaxTopics}

InitClicks ==
  /\ \E indexed \in ClickIndexChoices : db = IndexedStore(indexed)
  /\ \E source \in ClickSourceChoices, vectorizationEnabled \in BOOLEAN,
        picks \in ClickTopicLists :
       run = <<[NewRun EXCEPT !.state = BuilderState(source, vectorizationEnabled,
                                                     <<1000, FALSE, 3>>, picks)],
               [NewRun EXCEPT !.state = BuilderState(source, vectorizationEnabled,
                                                     <<1000, FALSE, 3>>, picks)]>>

NextClicks ==
  \/ Next
  \/ \E r \in DOMAIN run :
       \/ IgnoredSearch(r)
       \/ DisplayFails(r)
       \/ FailCollectionRead(r)
       \/ \E t \in DOMAIN run[r].tasks : FailVectorsRead(r, t)
       \/ FailChunksRead(r)
       \/ FailDocumentRead(r)

SpecClicks == InitClicks /\ [][NextClicks]_vars

\* every awaited storage request and timer settles
SpecClicksFair == SpecClicks /\ WF_vars(NextClicks)

(***************************************************************************)
(* Properties of packing, limiting and formatting                          *)
(***************************************************************************)
\* executeQuery has returned its result to executeSearch
Done(r) == run[r].pc \in {"done", "delay90", "delay100", "shown"}

Packed(r) == run[r].pc = "format" \/ Done(r)

LimitEnabled(r) ==
  run[r].searchQuery.limitSuperChunks /\ run[r].searchQuery.maxSuperChunksPerTopic >= 1

ChunksOf(superChunk) ==
  FlattenSeq([t \in 1..Len(superChunk.topics) |-> superChunk.topics[t].chunks])

KeyLess(a, b) ==
  \/ a.documentId < b.documentId
  \/ a.documentId = b.documentId /\ a.chunkNumber < b.chunkNumber

Tags(content) == [i \in 1..Len(content) |-> content[i].tag]

\* the chunk of a list with exactly j - 1 chunks before it in (documentId, chunkNumber)
ChronoNth(chunks, j) ==
  CHOOSE c \in Range(chunks) :
    Cardinality({d \in Range(chunks) : KeyLess(d, c)}) = j - 1

ExpectedPairs(topicResults) ==
  FlattenSeq([k \in 1..Len(topicResults) |->
                [j \in 1..Len(topicResults[k].chunks) |->
                   <<topicResults[k].topicId, ChronoNth(topicResults[k].chunks, j)>>]])

SectionPairs(topicSection) ==
  [k \in 1..Len(topicSection.chunks) |-> <<topicSection.topicId, topicSection.chunks[k]>>]

FlattenPairs(superChunks) ==
  FlattenSeq([i \in 1..Len(superChunks) |->
                FlattenSeq([t \in 1..Len(superChunks[i].topics) |->
                              SectionPairs(superChunks[i].topics[t])])])

RankedOutOfOrder(topicResult) ==
  \E i, j \in 1..Len(topicResult.chunks) :
    i < j /\ KeyLess(topicResult.chunks[j], topicResult.chunks[i])

\* C1: every returned SuperChunk renders to at most maxCharsPerSuperChunk
\* characters, or holds exactly one chunk whose own envelope exceeds the limit.
RenderedSizeBound ==
  \A r \in DOMAIN run :
    Done(r) =>
      \A i \in 1..Len(run[r].result.superChunks) :
        \/ run[r].result.superChunks[i].charCount
             <= run[r].searchQuery.maxCharsPerSuperChunk
        \/ /\ Len(ChunksOf(run[r].finalSuperChunks[i])) = 1
           /\ formatChunk(ChunksOf(run[r].finalSuperChunks[i])[1]).len
                > run[r].searchQuery.maxCharsPerSuperChunk

\* C2: the size the packer accounts for a SuperChunk (totalChars) equals the
\* length of the text the formatter emits for it (charCount).
AccountingMatchesRendering ==
  \A r \in DOMAIN run :
    Done(r) =>
      \A i \in 1..Len(run[r].result.superChunks) :
        run[r].finalSuperChunks[i].totalChars = run[r].result.superChunks[i].charCount

\* C3: flattening the packed SuperChunks in order gives the topics with
\* results in input order, each followed by all of its chunks in
\* (documentId, chunkNumber) order: nothing is lost or duplicated.
PackingPreservesChunks ==
  \A r \in DOMAIN run :
    Packed(r) => FlattenPairs(run[r].allSuperChunks) = ExpectedPairs(run[r].topicResults)

PackingPreservesChunksWitness ==
  \E r \in DOMAIN run :
    /\ Packed(r)
    /\ Cardinality({k \in 1..Len(run[r].topicResults) :
                      Len(run[r].topicResults[k].chunks) > 0}) >= 2
    /\ \E k \in 1..Len(run[r].topicResults) : RankedOutOfOrder(run[r].topicResults[k])
    /\ \E i \in 1..Len(run[r].allSuperChunks) :
         /\ Len(ChunksOf(run[r].allSuperChunks[i])) = 1
         /\ chunkChars(ChunksOf(run[r].allSuperChunks[i])[1])
              > run[r].searchQuery.maxCharsPerSuperChunk

\* C4: within every TopicSection adjacent chunks are strictly ascending in
\* (documentId, chunkNumber), whatever the ranking order of the input.
ChronologicalWithinSection ==
  \A r \in DOMAIN run :
    Packed(r) =>
      \A i \in 1..Len(run[r].allSuperChunks) :
        \A t \in 1..Len(run[r].allSuperChunks[i].topics) :
          LET chunks == run[r].allSuperChunks[i].topics[t].chunks
          IN \A k \in 1..(Len(chunks) - 1) : KeyLess(chunks[k], chunks[k + 1])

ChronologicalWithinSectionWitness ==
  \E r \in DOMAIN run :
    /\ Packed(r)
    /\ \E i \in 1..Len(run[r].allSuperChunks) :
         \E t \in 1..Len(run[r].allSuperChunks[i].topics) :
           LET section == run[r].allSuperChunks[i].topics[t]
           IN \E k \in 1..Len(run[r].topicResults) :
                /\ run[r].topicResults[k].topicId = section.topicId
                /\ \E a, b \in 1..Len(run[r].topicResults[k].chunks) :
                     /\ a < b
                     /\ KeyLess(run[r].topicResults[k].chunks[b],
                                run[r].topicResults[k].chunks[a])
                     /\ {run[r].topicResults[k].chunks[a].id,
                         run[r].topicResults[k].chunks[b].id}
                          \subseteq {c.id : c \in Range(section.chunks)}

\* C5: the sections of a topic in every SuperChunk after the first one that
\* holds the topic have isContinuation = TRUE, and a section is rendered with
\* the " (continued)" marker exactly when isContinuation is set.
ContinuationAfterFirst ==
  \A r \in DOMAIN run :
    /\ Packed(r) =>
         \A i, j \in 1..Len(run[r].allSuperChunks) :
           i < j =>
             \A s \in Range(run[r].allSuperChunks[i].topics) :
               \A u \in Range(run[r].allSuperChunks[j].topics) :
                 s.topicId = u.topicId => u.isContinuation
    /\ Done(r) =>
         \A i \in 1..Len(run[r].result.superChunks) :
           FilterSeq(Tags(run[r].result.superChunks[i].formattedContent),
                     LAMBDA tag : tag \in {"topic", "topicContinued"})
             = [t \in 1..Len(run[r].finalSuperChunks[i].topics) |->
                  IF run[r].finalSuperChunks[i].topics[t].isContinuation
                  THEN "topicContinued" ELSE "topic"]

ContinuationAfterFirstWitness ==
  \E r \in DOMAIN run :
    /\ Done(r)
    /\ \E k \in 1..Len(run[r].topicResults) :
         Cardinality({i \in 1..Len(run[r].finalSuperChunks) :
                        \E s \in Range(run[r].finalSuperChunks[i].topics) :
                          s.topicId = run[r].topicResults[k].topicId}) >= 3

PrimaryTopic(superChunk) == superChunk.topics[1].topicId

\* the SuperChunks with fewer than n earlier SuperChunks of the same primary topic
KeptIndexes(superChunks, n) ==
  {i \in 1..Len(superChunks) :
     Cardinality({j \in 1..(i - 1) :
                    PrimaryTopic(superChunks[j]) = PrimaryTopic(superChunks[i])}) < n}

SubsequenceAt(s, idx) == FilterSeq([i \in 1..Len(s) |-> <<i, s[i]>>],
                                   LAMBDA p : p[1] \in idx)

\* C6: with the limit enabled and N >= 1, the returned SuperChunks are the
\* packed ones, in order, that have fewer than N earlier SuperChunks of the
\* same primary topic; with a single topic they are the first N.
LimitKeepsFirstNPerPrimaryTopic ==
  \A r \in DOMAIN run :
    (Packed(r) /\ LimitEnabled(r)) =>
      LET all == run[r].allSuperChunks
          n == run[r].searchQuery.maxSuperChunksPerTopic
          kept == SubsequenceAt(all, KeptIndexes(all, n))
      IN /\ run[r].finalSuperChunks = [i \in 1..Len(kept) |-> kept[i][2]]
         /\ Len(run[r].topicResults) = 1 =>
              run[r].finalSuperChunks
                = SubSeq(all, 1, IF n < Len(all) THEN n ELSE Len(all))

LimitKeepsFirstNPerPrimaryTopicWitness ==
  \E r \in DOMAIN run :
    /\ Packed(r) /\ LimitEnabled(r)
    /\ run[r].searchQuery.maxSuperChunksPerTopic = 1
    /\ Len(run[r].allSuperChunks) = 3
    /\ [i \in 1..3 |-> PrimaryTopic(run[r].allSuperChunks[i])] = <<1, 1, 2>>
    /\ run[r].finalSuperChunks = <<run[r].allSuperChunks[1], run[r].allSuperChunks[3]>>

\* C7: the package header is rendered in the first returned SuperChunk and in
\* no other, the package footer ends the last one and appears in no other,
\* and SuperChunk N carries the continued marker iff N > 1.
HeaderFooterPlacement ==
  \A r \in DOMAIN run :
    Done(r) =>
      LET out == run[r].result.superChunks
      IN \A i \in 1..Len(out) :
           LET tags == Tags(out[i].formattedContent)
           IN /\ ("packageHeader" \in Range(tags)) <=> (i = 1)
              /\ i = 1 => tags[1] = "packageHeader"
              /\ ("packageFooter" \in Range(tags)) <=> (i = Len(out))
              /\ i = Len(out) => tags[Len(tags)] = "packageFooter"
              /\ Cardinality({k \in 1..Len(tags) :
                                tags[k] \in {"packageHeader", "packageFooter"}})
                   = (IF i = 1 THEN 1 ELSE 0) + (IF i = Len(out) THEN 1 ELSE 0)
              /\ ("continuedMarker" \in Range(tags)) <=> (i > 1)

HeaderFooterPlacementWitness ==
  \E r \in DOMAIN run :
    /\ Done(r) /\ LimitEnabled(r)
    /\ Len(run[r].result.superChunks) >= 2
    /\ Len(run[r].result.superChunks) < Len(run[r].allSuperChunks)

(***************************************************************************)
(* Properties of the search path                                           *)
(***************************************************************************)
TopicsOf(r) == run[r].state.queryTopics

SameTopic(a, b) == a.question = b.question /\ a.spatialCategory = b.spatialCategory

ChunkIds(chunks) == [i \in 1..Len(chunks) |-> chunks[i].id]

\* C8: two searches over the same store started from the same query builder
\* state (same source, same topics, same packing options) return the same
\* topicResults, in the same order, and the same rendered super chunks,
\* whatever order the per-topic expansions and the storage reads of either
\* search resolved in.
SameQuerySameResult ==
  (Done(1) /\ Done(2) /\ run[1].state = run[2].state)
    => /\ run[1].result.topicResults = run[2].result.topicResults
       /\ run[1].result.superChunks = run[2].result.superChunks
       /\ run[1].finalSuperChunks = run[2].finalSuperChunks

\* both searches of one query with several topics have rendered chunks
SameQuerySameResultWitness ==
  /\ Done(1) /\ Done(2)
  /\ run[1].state = run[2].state
  /\ Len(TopicsOf(1)) >= 2
  /\ \A k \in 1..2 : Len(run[2].result.topicResults[k].chunks) >= 2
  /\ Len(run[2].result.superChunks) >= 2

\* C9: when two searches over the same store and source both have a topic
\* with the same question and spatial category, at whatever position, and
\* differ in their other topics, the chunks of topicResults for that topic
\* are the same chunks in the same order.
TopicIsolation ==
  (Done(1) /\ Done(2))
    => \A i \in DOMAIN TopicsOf(1), j \in DOMAIN TopicsOf(2) :
         SameTopic(TopicsOf(1)[i], TopicsOf(2)[j])
           => ChunkIds(run[1].result.topicResults[i].chunks)
              = ChunkIds(run[2].result.topicResults[j].chunks)

\* a topic with results that is first in one search and second, behind a
\* different topic, in the other
TopicIsolationWitness ==
  /\ Done(1) /\ Done(2)
  /\ Len(TopicsOf(2)) >= 2
  /\ SameTopic(TopicsOf(1)[1], TopicsOf(2)[2])
  /\ ~SameTopic(TopicsOf(1)[1], TopicsOf(2)[1])
  /\ Len(run[1].result.topicResults[1].chunks) >= 2
  /\ Len(run[2].result.topicResults[1].chunks) >= 1

\* the score of a fetched chunk for block k of the search
ScoreFor(r, k, chunk) ==
  scoreChunk(chunk, run[r].searchQuery.blocks[k].inclusionConcepts[1]).totalScore

BelowThreshold(r, k, chunk) == ScoreFor(r, k, chunk) < 100 * minimumScoreThreshold

\* C10: every chunk of a topic result has a relevance score, the sum of its
\* original term, semantic and proximity scores, of at least 30 points; a
\* fetched chunk that scores less for a topic is neither in the topic result
\* nor in the topic's sections of any super chunk.
ThresholdExcludesLowScores ==
  \A r \in DOMAIN run :
    /\ \A k \in DOMAIN run[r].topicResults :
         LET chunks == run[r].topicResults[k].chunks
         IN /\ \A c \in DOMAIN chunks :
                 /\ chunks[c].relevanceScore >= 100 * minimumScoreThreshold
                 /\ chunks[c].relevanceScore
                    = chunks[c].scoreDetails.originalTermScore
                      + chunks[c].scoreDetails.semanticScore
                      + chunks[c].scoreDetails.proximityScore
            /\ \A a \in DOMAIN run[r].allChunks :
                 BelowThreshold(r, k, run[r].allChunks[a])
                   => ~seqIncludes(ChunkIds(chunks), run[r].allChunks[a].id)
    /\ Packed(r) =>
         \A sc \in DOMAIN run[r].allSuperChunks :
           \A t \in DOMAIN run[r].allSuperChunks[sc].topics :
             LET section == run[r].allSuperChunks[sc].topics[t]
             IN \A c \in DOMAIN section.chunks :
                  section.chunks[c].relevanceScore >= 100 * minimumScoreThreshold

\* a search is done whose first topic matched a chunk through an expansion
\* term only, below the threshold, and kept other chunks
ThresholdExcludesLowScoresWitness ==
  \E r \in DOMAIN run :
    /\ Done(r)
    /\ Len(run[r].result.topicResults[1].chunks) >= 2
    /\ Len(run[r].result.superChunks) >= 1
    /\ \E a \in DOMAIN run[r].allChunks :
         /\ ScoreFor(r, 1, run[r].allChunks[a]) > 0
         /\ BelowThreshold(r, 1, run[r].allChunks[a])
    /\ \E a \in DOMAIN run[r].allChunks : ScoreFor(r, 1, run[r].allChunks[a]) = 0

(***************************************************************************)
(* Properties of ranking, concepts and expansion                           *)
(***************************************************************************)
Scored(r) == run[r].pc = "pack" \/ Packed(r)

\* C11: the ranked chunks of every topic are in descending order of score,
\* and chunks of equal score are in ascending (documentId, chunkNumber)
\* order, whatever order the chunks were read in.
RankedByScoreThenKey ==
  \A r \in DOMAIN run :
    Scored(r) =>
      \A k \in 1..Len(run[r].topicResults) :
        LET chunks == run[r].topicResults[k].chunks
        IN \A i \in 1..(Len(chunks) - 1) :
             \/ chunks[i].relevanceScore > chunks[i + 1].relevanceScore
             \/ /\ chunks[i].relevanceScore = chunks[i + 1].relevanceScore
                /\ KeyLess(chunks[i], chunks[i + 1])

SetMax(S) == CHOOSE x \in S : \A y \in S : y <= x

\* the single concepts built by the expansions of the topics of search r
BuiltConcepts(r) ==
  IF run[r].query = <<>> THEN {}
  ELSE {run[r].query.topics[t].expandedConcepts[1] :
          t \in {u \in 1..Len(run[r].query.topics) :
                   run[r].query.topics[u].expandedConcepts # Null}}

\* C12: in the single concept built for a topic, every term is marked
\* isOriginal exactly when it is one of the original terms of the topic,
\* also when an earlier original term has it as a neighbour.
OriginalFlagMatchesOriginalTerms ==
  \A r \in DOMAIN run :
    \A concept \in BuiltConcepts(r) :
      \A i \in 1..Len(concept.terms) :
        concept.termMetadata[concept.terms[i]].isOriginal
          <=> seqIncludes(concept.originalTerms, concept.terms[i])

\* the similarities the per-term concepts of allExpansions hold for term
ObservedSimilarities(allExpansions, term) ==
  {allExpansions[i].similarities[term] :
     i \in {j \in 1..Len(allExpansions) : term \in DOMAIN allExpansions[j].similarities}}

\* C13: in the single concept built for a topic, the similarity of every
\* term is the largest similarity any per-term concept of the topic holds
\* for it, so every original term has similarity 1.0.
MetadataKeepsMaximumSimilarity ==
  \A r \in DOMAIN run :
    \A t \in DOMAIN run[r].tasks :
      (run[r].tasks[t].value # Null /\ run[r].tasks[t].value[1].expandedConcepts # Null)
        => LET concept == run[r].tasks[t].value[1].expandedConcepts[1]
           IN /\ \A i \in 1..Len(concept.terms) :
                   concept.termMetadata[concept.terms[i]].similarity
                     = SetMax(ObservedSimilarities(run[r].tasks[t].allExpansions,
                                                   concept.terms[i]))
              /\ \A i \in 1..Len(concept.originalTerms) :
                   concept.termMetadata[concept.originalTerms[i]].similarity = 100

\* the expansion of topic t of search r has read every document and
\* returned
Expanded(r, t) ==
  /\ run[r].tasks[t].value # Null
  /\ run[r].tasks[t].value[1].expandedConcepts # Null

\* the per-term concepts the documents of search r give for a question,
\* whatever order the documents are in
DocumentConcepts(r, question) ==
  UNION {Range(expandQuery(question, getVectors(db, d))) : d \in Range(run[r].documentIds)}

\* the similarities the documents give the expanded term for the original term
DocumentSimilarities(concepts, originalTerm, expandedTerm) ==
  {c.similarities[j] :
     <<c, j>> \in {<<d, k>> \in concepts \X (1..(maxExpansions + 1)) :
                     /\ d.originalTerm = originalTerm
                     /\ k <= Len(d.expandedTerms)
                     /\ d.expandedTerms[k] = expandedTerm}}

\* C14: when expandQueryMultiDoc has merged the expansions of all the
\* documents, every original term has one entry, the entry maps every
\* expanded term a document gave for it to the largest similarity a
\* document gave, and the returned similarities are those of the mapping;
\* the mapping does not depend on the order of documentIds.
MergeKeepsMaximumAcrossDocuments ==
  \A r \in DOMAIN run :
    \A t \in DOMAIN run[r].tasks :
      Expanded(r, t) =>
        LET concepts == DocumentConcepts(r, run[r].query.topics[t].question)
            merged == run[r].tasks[t].allExpansions
            returned == expansionResult(merged)
        IN /\ {merged[i].term : i \in 1..Len(merged)}
                = {c.originalTerm : c \in concepts}
           /\ \A i \in 1..Len(merged) :
                /\ \A j \in 1..(i - 1) : merged[j].term # merged[i].term
                /\ DOMAIN merged[i].similarities
                     = UNION {Range(c.expandedTerms) :
                                c \in {d \in concepts : d.originalTerm = merged[i].term}}
                /\ Range(merged[i].expandedTerms) = DOMAIN merged[i].similarities
                /\ \A u \in DOMAIN merged[i].similarities :
                     merged[i].similarities[u]
                       = SetMax(DocumentSimilarities(concepts, merged[i].term, u))
                /\ \A j \in 1..Len(returned[i].expandedTerms) :
                     returned[i].similarities[j]
                       = merged[i].similarities[returned[i].expandedTerms[j]]

\* two documents gave the neighbour line of pump different similarities,
\* the document read first the larger one
MergeKeepsMaximumAcrossDocumentsWitness ==
  \E r \in DOMAIN run :
    \E t \in DOMAIN run[r].tasks :
      /\ Expanded(r, t)
      /\ run[r].documentIds = <<3, 2>>
      /\ DocumentSimilarities(DocumentConcepts(r, run[r].query.topics[t].question),
                              pump, line) = {80, 88}
      /\ \E i \in 1..Len(run[r].tasks[t].allExpansions) :
           /\ run[r].tasks[t].allExpansions[i].term = pump
           /\ run[r].tasks[t].allExpansions[i].similarities[line] = 88

\* the concepts the blocks of search r are scored with
ScoringConcepts(r) ==
  IF run[r].searchQuery = <<>> THEN {}
  ELSE UNION {Range(run[r].searchQuery.blocks[k].inclusionConcepts) :
                k \in 1..Len(run[r].searchQuery.blocks)}

\* C15: every concept handed to the scorer has its original terms among
\* its terms and a termMetadata entry for every term, whichever path built
\* it (expansion, vectorization unavailable, expansion thrown).
ConceptsAreWellFormed ==
  \A r \in DOMAIN run :
    \A concept \in ScoringConcepts(r) :
      /\ Range(concept.originalTerms) \subseteq Range(concept.terms)
      /\ Range(concept.terms) \subseteq DOMAIN concept.termMetadata

\* C16: no term of a concept handed to the scorer is a stopword, whichever
\* path built the concept.
NoStopwordTerms ==
  \A r \in DOMAIN run :
    \A concept \in ScoringConcepts(r) :
      \A term \in Range(concept.terms) : ToStr(term) \notin stopwords

Indexed(d) == getVectors(db, d) # Null

\* the terms of the indexes of the indexed documents of search r
IndexedTerms(r) ==
  UNION {{getVectors(db, d)[1].matrix[i].term : i \in 1..Len(getVectors(db, d)[1].matrix)} :
           d \in {e \in Range(run[r].documentIds) : Indexed(e)}}

\* C17: when no queried document has an index, the expansion of a topic
\* returns a concept whose terms are the unigrams, bigrams and trigrams of
\* the question, each with similarity 1.0 and isOriginal, and nothing
\* else; when some documents have no index, every such term is still an
\* original term with similarity 1.0 and every other term is a term of the
\* index of an indexed document.
DegradedExpansionKeepsOriginalTerms ==
  \A r \in DOMAIN run :
    \A t \in DOMAIN run[r].tasks :
      (Expanded(r, t) /\ \E d \in Range(run[r].documentIds) : ~Indexed(d))
        => LET original == Range(allTermsOf(run[r].query.topics[t].question))
               merged == run[r].tasks[t].allExpansions
               concept == run[r].tasks[t].value[1].expandedConcepts[1]
           IN /\ original \subseteq {merged[i].term : i \in 1..Len(merged)}
              /\ \A i \in 1..Len(merged) :
                   /\ merged[i].similarities[merged[i].term] = 100
                   /\ Range(merged[i].expandedTerms) \ {merged[i].term}
                        \subseteq IndexedTerms(r)
              /\ (\A d \in Range(run[r].documentIds) : ~Indexed(d))
                   => /\ Range(concept.terms) = original
                      /\ \A term \in Range(concept.terms) :
                           concept.termMetadata[term]
                             = [similarity |-> 100, isOriginal |-> TRUE]

(***************************************************************************)
(* Properties of error handling                                            *)
(***************************************************************************)
\* C18: a search in which a storage read rejected (getChunksByDocument,
\* getChunksByCollection, getDocument, getVectors) is aborted: it never
\* completes and returns no result.
StorageFailureAborts ==
  \A r \in DOMAIN run :
    run[r].errorLog # <<>> => (run[r].pc # "done" /\ run[r].result = <<>>)

\* the request the search is started from is invalid: no topic, a topic
\* whose question is empty or white space, no selected document or
\* collection, an account tier that is not a tier
InvalidRequest(state) ==
  \/ Len(state.queryTopics) = 0
  \/ \E i \in 1..Len(state.queryTopics) :
       \A k \in 1..Len(state.queryTopics[i].question) :
         state.queryTopics[i].question[k] = " "
  \/ state.sourceType = "documents" /\ Len(state.selectedDocuments) = 0
  \/ state.sourceType = "collection" /\ state.selectedCollection = 0
  \/ state.accountTier \notin DOMAIN TIERS

\* C19: a search started from an invalid request is rejected before any
\* work: it builds no query, reads nothing from storage, expands nothing,
\* never reaches executeQuery, and searchInProgress stays false.
InvalidRequestRejected ==
  \A r \in DOMAIN run :
    InvalidRequest(run[r].state) =>
      /\ run[r].pc \in {"search", "rejected"}
      /\ run[r].query = <<>> /\ run[r].searchQuery = <<>>
      /\ run[r].tasks = <<>> /\ run[r].allChunks = <<>>
      /\ ~searchInProgress

(***************************************************************************)
(* Properties of the stored indexes                                        *)
(***************************************************************************)
\* C20: in every index built by buildCoOccurrenceMatrix no term has an
\* entry for itself in its own vector, also when the term occurs more than
\* once within one window.
NoSelfCooccurrence ==
  \A v \in 1..Len(db.vectors) :
    \A i \in 1..Len(db.vectors[v].matrix) :
      ~mapHas(db.vectors[v].matrix[i].vector, db.vectors[v].matrix[i].term)
(***************************************************************************)
(* Properties of index building and of findSimilarTerms                    *)
(***************************************************************************)
\* the index stored for the document of upload r
StoredIndex(r) == getVectors(db, run[r].docId)[1]

IndexStored(r) ==
  run[r].pc \in {"complete", "found"} /\ getVectors(db, run[r].docId) # Null

\* C21: the index stored for a document has at most CONFIG.maxTerms terms
\* as keys of its matrix.
VocabularyCapped ==
  \A r \in DOMAIN run :
    IndexStored(r) => Len(StoredIndex(r).matrix) <= run[r].CONFIG.maxTerms

\* the characters of terms in the order of their UTF-16 code units
CodeUnitOrder ==
  <<" ", "-", "0", "1", "2", "3", "4", "5", "6", "7", "8", "9",
    "a", "b", "c", "d", "e", "f", "g", "h", "i", "j", "k", "l", "m",
    "n", "o", "p", "q", "r", "s", "t", "u", "v", "w", "x", "y", "z">>

CodeUnit(c) == CHOOSE i \in DOMAIN CodeUnitOrder : CodeUnitOrder[i] = c

\* a is before b in lexicographic order
LexLess(a, b) ==
  \E i \in 1..(Len(b)) :
    /\ \A k \in 1..(i - 1) : k <= Len(a) /\ a[k] = b[k]
    /\ \/ Len(a) = i - 1
       \/ Len(a) >= i /\ CodeUnit(a[i]) < CodeUnit(b[i])

\* the similarity of term to the query term of upload r in the stored index
SimilarityTo(r, term) ==
  IF mapHas(StoredIndex(r).matrix, run[r].queryTerm)
  THEN cosineSimilarity(mapGet(StoredIndex(r).matrix, run[r].queryTerm).vector,
                        mapGet(StoredIndex(r).matrix, term).vector)
  ELSE 0

\* the terms findSimilarTerms may return: other keys, similar enough
Candidates(r) ==
  {StoredIndex(r).matrix[i].term : i \in
     {j \in DOMAIN StoredIndex(r).matrix :
        /\ StoredIndex(r).matrix[j].term # run[r].queryTerm
        /\ SimilarityTo(r, StoredIndex(r).matrix[j].term) >= minSimilarity}}

\* a is ranked before b: more similar, or as similar and first in the alphabet
RankedBefore(r, a, b) ==
  \/ SimilarityTo(r, a) > SimilarityTo(r, b)
  \/ SimilarityTo(r, a) = SimilarityTo(r, b) /\ LexLess(a, b)

\* C22: findSimilarTerms returns the maxResults best candidates (or all of
\* them when there are fewer), none the query term, each at least
\* minSimilarity, in descending similarity, equal similarities in
\* lexicographic order of the term.
SimilarTermsRanked ==
  \A r \in DOMAIN run :
    run[r].pc = "found" =>
      /\ Len(run[r].similar) <= run[r].maxResults
      /\ Len(run[r].similar) = run[r].maxResults
           \/ Len(run[r].similar) = Cardinality(Candidates(r))
      /\ \A i \in DOMAIN run[r].similar :
           /\ run[r].similar[i].term \in Candidates(r)
           /\ run[r].similar[i].similarity = SimilarityTo(r, run[r].similar[i].term)
      /\ \A i, j \in DOMAIN run[r].similar :
           i < j => RankedBefore(r, run[r].similar[i].term, run[r].similar[j].term)
      /\ \A i \in DOMAIN run[r].similar :
           \A c \in Candidates(r) :
             (\A j \in DOMAIN run[r].similar : run[r].similar[j].term # c)
               => RankedBefore(r, run[r].similar[i].term, c)

DeleteRemovesEverythingOrRejects ==
  \A r \in DOMAIN run :
    /\ run[r].pc = "observed" =>
         /\ \A i \in DOMAIN run[r].observed.documents :
              run[r].observed.documents[i].id # run[r].documentId
         /\ run[r].observed.chunks = <<>>
         /\ run[r].observed.vectors = Null
    /\ run[r].pc \in {"resolved", "observed"} => run[r].failed = {}

(***************************************************************************)
(* Properties of the spatial filter                                        *)
(***************************************************************************)
\* the ranked chunks above the threshold of block k: the input of the filter
FilterInput(r, k) ==
  executeBlockWithScoring([run[r].searchQuery.blocks[k] EXCEPT !.spatialCategory = "auto"],
                          run[r].allChunks)

\* n^2 times the sum of the squared differences to the mean of the chunk
\* numbers
SquaredSpread(chunks) ==
  SumSeq([i \in 1..Len(chunks) |->
            (Len(chunks) * chunks[i].chunkNumber
               - SumSeq([j \in 1..Len(chunks) |-> chunks[j].chunkNumber]))
            * (Len(chunks) * chunks[i].chunkNumber
               - SumSeq([j \in 1..Len(chunks) |-> chunks[j].chunkNumber]))])

\* the population standard deviation of the chunk numbers is below bound
DeviationBelow(chunks, bound) ==
  SquaredSpread(chunks) < bound * bound * Len(chunks) * Len(chunks) * Len(chunks)

DeviationAbove(chunks, bound) ==
  SquaredSpread(chunks) > bound * bound * Len(chunks) * Len(chunks) * Len(chunks)

\* C25: the chunks of a topic are all the ranked chunks or none: with
\* 'concentrated' all iff there are at least 2 with a deviation of their
\* chunk numbers below 10, with 'spread' all iff at least 2 with a deviation
\* above 50, with 'auto' all.
SpatialFilterAllOrNothing ==
  \A r \in DOMAIN run :
    \A k \in DOMAIN run[r].topicResults :
      run[r].topicResults[k].chunks =
        IF run[r].searchQuery.blocks[k].spatialCategory = "auto"
        THEN FilterInput(r, k)
        ELSE IF run[r].searchQuery.blocks[k].spatialCategory = "concentrated"
        THEN IF Len(FilterInput(r, k)) >= 2 /\ DeviationBelow(FilterInput(r, k), 10)
             THEN FilterInput(r, k) ELSE <<>>
        ELSE IF Len(FilterInput(r, k)) >= 2 /\ DeviationAbove(FilterInput(r, k), 50)
             THEN FilterInput(r, k) ELSE <<>>

\* chunks 0 and 15 are kept by 'concentrated'
SpatialFilterAllOrNothingWitness ==
  \E r \in DOMAIN run :
    /\ Len(run[r].topicResults) = 1
    /\ run[r].searchQuery.blocks[1].spatialCategory = "concentrated"
    /\ Len(run[r].allChunks) = 3
    /\ Len(run[r].topicResults[1].chunks) = 2
    /\ [i \in 1..2 |-> run[r].topicResults[1].chunks[i].chunkNumber] = <<0, 15>>

(***************************************************************************)
(* Properties of createChunksWithOverlap                                   *)
(***************************************************************************)
\* C26: every call of createChunksWithOverlap returns.
ChunkingTerminates == <>(\A r \in DOMAIN run : run[r].pc = "returned")

(***************************************************************************)
(* Properties of executeSearch                                             *)
(***************************************************************************)
\* the call r of executeSearch has set searchInProgress and has not reset it
Searching(r) ==
  run[r].pc \notin {"search", "ignored", "rejected", "shown", "failed"}

\* C27: at most one search runs at a time, and a call of executeSearch made
\* while a search is in progress has built no query, expanded nothing, not
\* called executeQuery and changed nothing.
OneSearchAtATime ==
  /\ Cardinality({r \in DOMAIN run : Searching(r)}) <= 1
  /\ \A r \in DOMAIN run :
       run[r].pc = "ignored" =>
         run[r] = [NewRun EXCEPT !.pc = "ignored", !.state = run[r].state]

\* the second click came while the first search waited for a timer
OneSearchAtATimeWitness ==
  \E r \in DOMAIN run :
    /\ r > 1
    /\ run[r].pc = "ignored"
    /\ run[1].pc = "delay90"
    /\ run[1].result # <<>>

\* C28: a call of executeSearch that has set searchInProgress resets it in
\* the end, whether the search succeeds, finds nothing or a step throws.
SearchProgressEnds == \A r \in 1..2 : Searching(r) ~> ~Searching(r)

\* the display of the results threw and the progress was hidden
SearchProgressEndsWitness ==
  \E r \in DOMAIN run :
    /\ run[r].pc = "failed"
    /\ run[r].result # <<>>
    /\ run[r].errorLog = <<"Search error:">>
    /\ ~searchInProgress

\* C29: a TopicSection has isContinuation = TRUE only if an earlier
\* SuperChunk of the same packing holds a TopicSection of the same topic, so
\* the first TopicSection emitted for a topic is never a continuation, also
\* when the topic starts in a new SuperChunk because its first chunk did not fit.
ContinuationOnlyAfterEarlierSection ==
  \A r \in DOMAIN run :
    Packed(r) =>
      \A i \in 1..Len(run[r].allSuperChunks) :
        \A s \in Range(run[r].allSuperChunks[i].topics) :
          s.isContinuation =>
            \E j \in 1..(i - 1) :
              \E u \in Range(run[r].allSuperChunks[j].topics) :
                u.topicId = s.topicId

ChunkCount(superChunk) ==
  FoldSeq(superChunk.topics, 0, LAMBDA n, section : n + Len(section.chunks))

\* C30: in the packer's own accounting every emitted SuperChunk has at least
\* one TopicSection, every TopicSection has at least one chunk, isFirst is set
\* on the first SuperChunk and on no other, and totalChars is at most
\* maxCharsPerSuperChunk unless the SuperChunk holds exactly one chunk.
PackerAccounting ==
  \A r \in DOMAIN run :
    Packed(r) =>
      \A i \in 1..Len(run[r].allSuperChunks) :
        LET superChunk == run[r].allSuperChunks[i]
        IN /\ Len(superChunk.topics) >= 1
           /\ \A s \in Range(superChunk.topics) : Len(s.chunks) >= 1
           /\ superChunk.isFirst <=> (i = 1)
           /\ \/ superChunk.totalChars <= run[r].searchQuery.maxCharsPerSuperChunk
              \/ ChunkCount(superChunk) = 1

\* a packing of three SuperChunks or more, one of them over the limit with
\* its single chunk and another holding several chunks within the limit
PackerAccountingWitness ==
  \E r \in DOMAIN run :
    /\ Packed(r)
    /\ Len(run[r].allSuperChunks) >= 3
    /\ \E i \in 1..Len(run[r].allSuperChunks) :
         /\ run[r].allSuperChunks[i].totalChars
              > run[r].searchQuery.maxCharsPerSuperChunk
         /\ ChunkCount(run[r].allSuperChunks[i]) = 1
    /\ \E i \in 1..Len(run[r].allSuperChunks) :
         /\ ChunkCount(run[r].allSuperChunks[i]) >= 2
         /\ run[r].allSuperChunks[i].totalChars
              <= run[r].searchQuery.maxCharsPerSuperChunk

====
